---- MODULE Spec2Model ----
(***************************************************************************)
(* openapi-mcp: the multi-spec registry (OpenAPIToolCaller.__init__ and    *)
(* _add_tools_from_spec), the action descriptor builder                    *)
(* (generate_tool_from_operation) and the request dispatcher               *)
(* (OpenAPIToolCaller.call_tool).                                          *)
(*                                                                         *)
(* Python strings that the code inspects character by character (paths,    *)
(* glob patterns, tags, names, prefixes) are sequences of one-character    *)
(* strings.  Strings the code only compares as a whole are TLA+ strings.   *)
(* A Python dict is a function; where the code depends on the iteration    *)
(* order of a dict the dict is a sequence of entries.                      *)
(***************************************************************************)
EXTENDS Integers, Sequences, FiniteSets, TLC

----------------------------------------------------------------------------
(* Bounds of the model *)

\* longest binding list handed to the registry constructor
MaxBindings == 2

\* dispatches each caller performs
MaxCalls == 1

----------------------------------------------------------------------------
(* Strings *)

\* Python None where a whole-string value is optional
None == "<None>"

Range(s) == {s[k] : k \in 1..Len(s)}

\* str.lower() / str.upper() on the letters the inputs use
lower(c) ==
    CASE c = "G" -> "g" [] c = "E" -> "e" [] c = "T" -> "t"
      [] c = "P" -> "p" [] c = "O" -> "o" [] c = "S" -> "s"
      [] OTHER -> c

upper(c) ==
    CASE c = "g" -> "G" [] c = "e" -> "E" [] c = "t" -> "T"
      [] c = "p" -> "P" [] c = "o" -> "O" [] c = "s" -> "S"
      [] c = "u" -> "U" [] c = "r" -> "R" [] c = "a" -> "A"
      [] c = "c" -> "C"
      [] OTHER -> c

Lower(s) == [k \in 1..Len(s) |-> lower(s[k])]
Upper(s) == [k \in 1..Len(s) |-> upper(s[k])]

\* s.replace(one character, one character)
ReplaceChar(s, old, new) == [k \in 1..Len(s) |-> IF s[k] = old THEN new ELSE s[k]]

RECURSIVE LStrip(_, _)
LStrip(s, c) == IF s # <<>> /\ Head(s) = c THEN LStrip(Tail(s), c) ELSE s

RECURSIVE RStrip(_, _)
RStrip(s, c) ==
    IF s # <<>> /\ s[Len(s)] = c THEN RStrip(SubSeq(s, 1, Len(s) - 1), c) ELSE s

\* s.strip(c)
Strip(s, c) == RStrip(LStrip(s, c), c)

\* fnmatch.fnmatch(val, pat) on a POSIX build (normcase is the identity):
\* "*" matches any run of characters, "?" exactly one, anything else itself;
\* the whole of val must match.  The patterns of the inputs have no bracket
\* classes.
RECURSIVE fnmatch(_, _)
fnmatch(val, pat) ==
    IF pat = <<>> THEN val = <<>>
    ELSE IF Head(pat) = "*"
         THEN fnmatch(val, Tail(pat)) \/ (val # <<>> /\ fnmatch(Tail(val), pat))
    ELSE IF Head(pat) = "?"
         THEN val # <<>> /\ fnmatch(Tail(val), Tail(pat))
    ELSE val # <<>> /\ Head(val) = Head(pat) /\ fnmatch(Tail(val), Tail(pat))

----------------------------------------------------------------------------
(* Documents *)

\* A media-type entry of requestBody.content.  keys is the set of keys of
\* the entry's dict; description is the text the builder appends to, one
\* element per appended fragment.
MediaEntry(media, keys) == [media |-> media, keys |-> keys, description |-> <<>>]

\* requestBody: absent (key not in the operation), or a dict with the given
\* keys and the given content entries in declaration order
NoBody == [present |-> FALSE, keys |-> {}, required |-> FALSE, content |-> <<>>]
Body(keys, required, content) ==
    [present |-> TRUE, keys |-> keys, required |-> required, content |-> content]

Param(name, in, required, ref) ==
    [name |-> name, in |-> in, required |-> required, ref |-> ref]

\* One (path, method) entry of the document's paths, in iteration order.
\* keys is the set of keys of the operation dict.
Operation(path, method, operationId, keys, tags, parameters, requestBody) ==
    [path |-> path, method |-> method, operationId |-> operationId,
     keys |-> keys, tags |-> tags, parameters |-> parameters,
     requestBody |-> requestBody]

\* a Python dict is falsy when it has no keys
Truthy(keys) == keys # {}

A == <<"A">>
B == <<"B">>
C == <<"C">>
D == <<"D">>
get == <<"g", "e", "t">>
post == <<"p", "o", "s", "t">>
put == <<"p", "u", "t">>
trace == <<"t", "r", "a", "c", "e">>
GET == <<"G", "E", "T">>
p_foo == <<"/", "f", "o", "o">>
p_bar == <<"/", "b", "a", "r">>
p_baz == <<"/", "b", "a", "z">>
p_x == <<"/", "x">>
p_y == <<"/", "y">>
p_z == <<"/", "z">>
p_w == <<"/", "w">>
p_v == <<"/", "v">>
p_user == <<"/", "u", "/", "{", "i", "d", "}">>
body == <<"b", "o", "d", "y">>
id == <<"i", "d">>
q == <<"q">>

JSON == "application/json"
FORM == "application/x-www-form-urlencoded"
MULTIPART == "multipart/form-data"

\* the document of tests/test_tool_caller.py:165-190
DocTags ==
    << Operation(p_foo, get, <<"F">>, {"operationId", "tags", "parameters"},
                 <<A, B>>, <<>>, NoBody),
       Operation(p_bar, post, <<"R">>, {"operationId", "tags", "parameters"},
                 <<B, C>>, <<>>, NoBody),
       Operation(p_baz, get, <<"Z">>, {"operationId", "tags", "parameters"},
                 <<C, D>>, <<>>, NoBody) >>

\* operations with and without request bodies, one untagged, one without
\* operationId, one under an unsupported key of the path item, one whose
\* method key is upper case, one whose parameter schema has a broken $ref,
\* one that declares the name id both in the path and in the query and
\* whose operationId contains a colon
DocBodies ==
    << Operation(p_x, post, <<"X">>, {"operationId", "requestBody", "tags"},
                 <<A>>, <<>>,
                 Body({"content"}, FALSE, <<MediaEntry(JSON, {"schema"})>>)),
       Operation(p_y, post, <<>>, {"requestBody", "parameters"},
                 <<>>, <<Param(id, "query", TRUE, "none")>>,
                 Body({"content", "required"}, TRUE,
                      <<MediaEntry(FORM, {"schema", "example"}),
                        MediaEntry(JSON, {"schema"})>>)),
       Operation(p_z, put, <<"Z">>, {"operationId", "requestBody"},
                 <<>>, <<>>,
                 Body({"content"}, TRUE, <<MediaEntry(JSON, {})>>)),
       Operation(p_w, trace, <<"W">>, {"operationId"}, <<>>, <<>>, NoBody),
       Operation(p_v, GET, <<"V">>, {"operationId"}, <<>>, <<>>, NoBody),
       Operation(p_foo, get, <<"F">>, {"operationId", "parameters"}, <<>>,
                 <<Param(q, "query", TRUE, "broken")>>, NoBody),
       Operation(p_user, get, <<"X", ":", "Z">>, {"operationId", "parameters"},
                 <<>>,
                 <<Param(id, "path", TRUE, "none"),
                   Param(id, "query", TRUE, "none")>>, NoBody) >>

\* a request body without content entries between two sound operations
DocNoContent ==
    << Operation(p_x, get, <<"X">>, {"operationId", "tags"}, <<C>>, <<>>, NoBody),
       Operation(p_y, post, <<"Y">>, {"operationId", "requestBody"}, <<>>, <<>>,
                 Body({"description"}, FALSE, <<>>)),
       Operation(p_z, get, <<"Z">>, {"operationId"}, <<>>, <<>>, NoBody) >>

\* a request body declared but empty ("requestBody": {}) between two sound
\* operations
DocEmptyBody ==
    << Operation(p_x, get, <<"X">>, {"operationId"}, <<>>, <<>>, NoBody),
       Operation(p_y, post, <<"Y">>, {"operationId", "requestBody"}, <<>>, <<>>,
                 Body({}, FALSE, <<>>)),
       Operation(p_z, get, <<"Z">>, {"operationId"}, <<>>, <<>>, NoBody) >>

ContentType == <<"C", "o", "n", "t", "e", "n", "t", "-", "T", "y", "p", "e">>
Authorization == <<"A", "u", "t", "h", "o", "r", "i", "z", "a", "t", "i", "o", "n">>

\* the header name in lower case
ct_lower == <<"c", "o", "n", "t", "e", "n", "t", "-", "t", "y", "p", "e">>

p_pair == <<"/", "p", "/", "{", "a", "}", "/", "{", "b", "}">>

\* the document the dispatches run against: path, query and header
\* parameters, and one request body per kind of media type; an operation P
\* with two path parameters, a cookie parameter and a parameter declared in
\* the body; a multipart operation N that declares the content type header
\* under both spellings
DocApi ==
    << Operation(p_user, get, <<"U">>, {"operationId", "parameters"}, <<>>,
                 <<Param(id, "path", TRUE, "none"), Param(q, "query", TRUE, "none")>>,
                 NoBody),
       Operation(p_x, post, <<"J">>, {"operationId", "parameters", "requestBody"},
                 <<>>,
                 <<Param(ContentType, "header", FALSE, "none"),
                   Param(Authorization, "header", FALSE, "none")>>,
                 Body({"content"}, FALSE, <<MediaEntry(JSON, {"schema"})>>)),
       Operation(p_y, post, <<"M">>, {"operationId", "requestBody"}, <<>>, <<>>,
                 Body({"content", "required"}, TRUE,
                      <<MediaEntry(MULTIPART, {"schema"})>>)),
       Operation(p_z, put, <<"T">>, {"operationId", "requestBody"}, <<>>, <<>>,
                 Body({"content"}, TRUE, <<MediaEntry("Text/Plain", {"schema"})>>)),
       Operation(p_pair, get, <<"P">>, {"operationId", "parameters"}, <<>>,
                 <<Param(<<"a">>, "path", FALSE, "none"),
                   Param(<<"b">>, "path", FALSE, "none"),
                   Param(<<"c", "k">>, "cookie", FALSE, "none"),
                   Param(<<"p", "l">>, "body", FALSE, "none")>>,
                 NoBody),
       Operation(p_w, post, <<"N">>, {"operationId", "parameters", "requestBody"},
                 <<>>,
                 <<Param(ContentType, "header", FALSE, "none"),
                   Param(ct_lower, "header", FALSE, "none")>>,
                 Body({"content"}, FALSE, <<MediaEntry(MULTIPART, {"schema"})>>)) >>

----------------------------------------------------------------------------
(* Action descriptor builder: tool_generator.py *)

\* index of the operation that paths.get(path).get(method) returns, 0 for None
LookupOp(doc, path, method) ==
    IF \E k \in 1..Len(doc) : doc[k].path = path /\ doc[k].method = method
    THEN CHOOSE k \in 1..Len(doc) : doc[k].path = path /\ doc[k].method = method
    ELSE 0

\* ToolName that leaves the prefix out of the name
ToolName_no_prefix(operation, path, method, prefix) ==
    IF operation.operationId # <<>>
    THEN operation.operationId
    ELSE Strip(ReplaceChar(method \o <<"_">> \o path, "/", "_"), "_")

\* operationId if available, else method_path with "/" flattened to "_" and
\* edge underscores trimmed; prefixed by "prefix:" when a prefix is given
ToolName(operation, path, method, prefix) ==
    LET name == IF operation.operationId # <<>>
                THEN operation.operationId
                ELSE Strip(ReplaceChar(method \o <<"_">> \o path, "/", "_"), "_")
    IN  IF prefix # <<>> THEN prefix \o <<":">> \o name ELSE name

\* the dict built from a sequence of (key, value) assignments: the last
\* assignment to a key wins
DictOf(keys, valueAt(_)) ==
    [n \in Range(keys) |->
        valueAt(CHOOSE k \in 1..Len(keys) :
                    /\ keys[k] = n
                    /\ \A m \in (k + 1)..Len(keys) : keys[m] # n)]

\* extract_parameters: raises when a parameter schema's $ref does not
\* resolve; otherwise one property per parameter name and the names of the
\* parameters flagged required, in order
extract_parameters(operation) ==
    LET params == operation.parameters
        names == [k \in 1..Len(params) |-> params[k].name]
        isReq(prm) == prm.required
    IN  [raised |-> \E k \in 1..Len(params) : params[k].ref = "broken",
         properties |-> DictOf(names, LAMBDA k : [kind |-> "parameter",
                                                  type |-> "string"]),
         required |-> [k \in 1..Len(SelectSeq(params, isReq)) |->
                          SelectSeq(params, isReq)[k].name]]

\* the fragments extract_body appends to the description of the first
\* content entry
BodyDescription(entry) ==
    <<"Body Content-Type:", entry.media>>
        \o (IF "example" \in entry.keys THEN <<"Example:">> ELSE <<>>)

\* extract_body that appends body to required only when the request body's
\* required flag is set
extract_body_required_buggy(heap, ref, k, properties, required) ==
    LET operation == heap[ref][k]
        request_body == operation.requestBody
        first == request_body.content[1]
    IN  IF ~(request_body.present /\ Truthy(request_body.keys))
        THEN [raised |-> FALSE, heap |-> heap,
              properties |-> properties, required |-> required]
        ELSE IF request_body.content = <<>>
        THEN [raised |-> TRUE, heap |-> heap,
              properties |-> properties, required |-> required]
        ELSE IF ~Truthy(first.keys)
        THEN [raised |-> FALSE, heap |-> heap,
              properties |-> properties, required |-> required]
        ELSE [raised |-> FALSE,
              heap |-> [heap EXCEPT ![ref][k].requestBody.content[1] =
                          [first EXCEPT
                              !.keys = @ \cup {"description"},
                              !.description = @ \o BodyDescription(first)]],
              properties |->
                  [n \in DOMAIN properties \cup {body} |->
                      IF n = body THEN [kind |-> "body", at |-> <<ref, k>>]
                      ELSE properties[n]],
              required |-> IF request_body.required
                           THEN Append(required, body) ELSE required]

\* extract_body on operation k of the document at heap[ref].  properties
\* ["body"] is the first content entry itself (the same object, held by
\* reference), whose description the builder extends in place.
extract_body(heap, ref, k, properties, required) ==
    LET operation == heap[ref][k]
        request_body == operation.requestBody
        first == request_body.content[1]
    IN  IF ~(request_body.present /\ Truthy(request_body.keys))
        THEN [raised |-> FALSE, heap |-> heap,
              properties |-> properties, required |-> required]
        ELSE IF request_body.content = <<>>
        THEN [raised |-> TRUE, heap |-> heap,
              properties |-> properties, required |-> required]
        ELSE IF ~Truthy(first.keys)
        THEN [raised |-> FALSE, heap |-> heap,
              properties |-> properties, required |-> required]
        ELSE [raised |-> FALSE,
              heap |-> [heap EXCEPT ![ref][k].requestBody.content[1] =
                          [first EXCEPT
                              !.keys = @ \cup {"description"},
                              !.description = @ \o BodyDescription(first)]],
              properties |->
                  [n \in DOMAIN properties \cup {body} |->
                      IF n = body THEN [kind |-> "body", at |-> <<ref, k>>]
                      ELSE properties[n]],
              required |-> Append(required, body)]

\* generate_tool_from_operation(spec, path, method, prefix) with spec the
\* document at heap[ref]
generate_tool_from_operation(heap, ref, path, method, prefix) ==
    LET spec == heap[ref]
        k == LookupOp(spec, path, Lower(method))
        operation == spec[k]
        ps == extract_parameters(operation)
        bd == extract_body(heap, ref, k, ps.properties, ps.required)
    IN  IF k = 0 \/ (k # 0 /\ ~Truthy(operation.keys)) \/ ps.raised \/ bd.raised
        THEN [raised |-> TRUE, heap |-> heap, tool |-> <<>>]
        ELSE [raised |-> FALSE, heap |-> bd.heap,
              tool |-> [name |-> ToolName(operation, path, method, prefix),
                        inputSchema |-> [type |-> "object",
                                         properties |-> bd.properties,
                                         required |-> bd.required]]]

----------------------------------------------------------------------------
(* Specification bindings and their environment *)

\* an optional list of glob patterns: None, or a list
NoFilter == [set |-> FALSE, pats |-> <<>>]
Globs(pats) == [set |-> TRUE, pats |-> pats]

\* OpenAPISpec (utils/config.py)
OpenAPISpec(service_name, file_location, prefix, auth_type, base_url, include_tags, exclude_tags, include_paths, exclude_paths) ==
    [service_name |-> service_name, file_location |-> file_location,
     prefix |-> prefix, auth_type |-> auth_type, base_url |-> base_url,
     include_tags |-> include_tags, exclude_tags |-> exclude_tags,
     include_paths |-> include_paths, exclude_paths |-> exclude_paths]

\* base addresses ("a", "b/" and "c" stand for https://dummy.api and the like)
url_a == <<"a">>
url_b == <<"b", "/">>
url_c == <<"c">>

\* config.get_openapi_base_url(service): the base_url of config.yaml under
\* openapi.<service>, None (empty) when there is none
get_openapi_base_url(service) == IF service = "cfg" THEN url_c ELSE <<>>

----------------------------------------------------------------------------
(* Multi-spec registry: tool_caller.py *)

VARIABLES
    openapi_specs,    \* the ordered binding list handed to the constructor
    pc,               \* "load" | "ops" | "ready" | "raised": constructor position
    i,                \* index of the binding the constructor is at
    j,                \* index of the operation of that binding's document
    heap,             \* binding index -> the document loaded for it
    tools,            \* self.tools: name -> Tool
    registry,         \* self.registry: name -> OperationMeta
    tool_base_urls,   \* self.tool_base_urls: name -> base address
    tool_specs,       \* self.tool_specs: name -> reference to the document
    survived,         \* history: <<i, j>> of the operations that passed the filters
    recorded,         \* history: <<i, j>> of the operations stored in the maps
    callers,          \* the callers that dispatch once the registry is ready
    calls,            \* caller -> number of dispatches it has started
    d,                \* caller -> its dispatch (the frame of call_tool)
    open_files,       \* the attachment file handles that are open
    replies,          \* caller -> what server.call_tool has handed back, in order
    synth,            \* the frame of a generate_example_from_schema call
    resolve           \* the frame of a _resolve_ref call

disp_vars == <<callers, calls, d, open_files, replies>>

fn_vars == <<synth, resolve>>

\* no call of the function is in progress
NoCall == [phase |-> "none"]

ctor_vars == <<openapi_specs, pc, i, j, heap, tools, registry,
               tool_base_urls, tool_specs, survived, recorded>>

Verbs ==
    { get, post, put, <<"d", "e", "l", "e", "t", "e">>,
      <<"p", "a", "t", "c", "h">>, <<"o", "p", "t", "i", "o", "n", "s">>,
      <<"h", "e", "a", "d">> }

\* match_any that looks at the first tag only
match_any_first_tag(val_list, patterns) ==
    /\ patterns # <<>>
    /\ val_list # <<>>
    /\ \E p \in 1..Len(patterns) : fnmatch(val_list[1], patterns[p])

match_any(val_list, patterns) ==
    /\ patterns # <<>>
    /\ val_list # <<>>
    /\ \E p \in 1..Len(patterns) : \E v \in 1..Len(val_list) :
          fnmatch(val_list[v], patterns[p])

match_path(path, patterns) ==
    /\ patterns # <<>>
    /\ \E p \in 1..Len(patterns) : fnmatch(path, patterns[p])

\* truthiness of an optional list: neither None nor empty
IsSet(f) == f.set /\ f.pats # <<>>

\* the four filters of _add_tools_from_spec, in the order of the code; TRUE
\* when the operation is not skipped by any of them
PassesFilters(spec_obj, operation) ==
    /\ ~(IsSet(spec_obj.include_paths)
           /\ ~match_path(operation.path, spec_obj.include_paths.pats))
    /\ ~(IsSet(spec_obj.exclude_paths)
           /\ match_path(operation.path, spec_obj.exclude_paths.pats))
    /\ ~(IsSet(spec_obj.include_tags)
           /\ ~match_any(operation.tags, spec_obj.include_tags.pats))
    /\ ~(IsSet(spec_obj.exclude_tags)
           /\ match_any(operation.tags, spec_obj.exclude_tags.pats))

\* param_locations of the operation: parameter name -> location, "body" for
\* the request body when the operation has the requestBody key
ParamLocations(operation) ==
    LET params == operation.parameters
        names == [k \in 1..Len(params) |-> params[k].name]
        locs == DictOf(names, LAMBDA k : params[k].in)
    IN  IF operation.requestBody.present
        THEN [n \in DOMAIN locs \cup {body} |->
                 IF n = body THEN "body" ELSE locs[n]]
        ELSE locs

\* OperationMeta as built at tool_caller.py:205-213
OperationMeta(operation, tool, spec_obj) ==
    [method |-> Upper(operation.method),
     path |-> operation.path,
     param_locations |-> ParamLocations(operation),
     required |-> tool.inputSchema.required,
     conten_media_type |-> IF operation.requestBody.present
                           THEN operation.requestBody.content[1].media
                           ELSE JSON,
     auth_type |-> spec_obj.auth_type,
     service_name |-> spec_obj.service_name]

\* m[k] = v on a dict
Put(m, k, v) == [n \in DOMAIN m \cup {k} |-> IF n = k THEN v ELSE m[n]]

\* the effective base address of a binding: its own, else the configured one
BaseUrlOf(spec_obj) ==
    IF spec_obj.base_url # <<>> THEN spec_obj.base_url
    ELSE get_openapi_base_url(spec_obj.service_name)

\* the documents the loader can read, by file_location; load_openapi_spec
\* raises for any other location
Files == {"tags", "bodies", "nocontent", "emptybody", "api"}

LoadFails(spec_obj) == spec_obj.file_location \notin Files

\* What the loop body of _add_tools_from_spec does with operation k of the
\* document at h[ref]:
\*   "nonverb"    the key is not one of the HTTP verbs of the code
\*   "filtered"   one of the four filters skips it
\*   "builderror" generate_tool_from_operation raises (caught, skipped)
\*   "raise"      an exception escapes the loop (next(iter(content)) on a
\*                request body without content entries, line 202)
\*   "record"     the operation is stored in the four maps
OpOutcome(h, ref, k, spec_obj) ==
    LET operation == h[ref][k]
        built == generate_tool_from_operation(h, ref, operation.path,
                                              operation.method, spec_obj.prefix)
    IN  IF Lower(operation.method) \notin Verbs THEN "nonverb"
        ELSE IF ~PassesFilters(spec_obj, operation) THEN "filtered"
        ELSE IF built.raised THEN "builderror"
        ELSE IF operation.requestBody.present
                  /\ operation.requestBody.content = <<>> THEN "raise"
        ELSE "record"

\* load_openapi_spec(file_location): a fresh copy of the document
load_openapi_spec(file_location) ==
    CASE file_location = "tags" -> DocTags
      [] file_location = "bodies" -> DocBodies
      [] file_location = "nocontent" -> DocNoContent
      [] file_location = "emptybody" -> DocEmptyBody
      [] file_location = "api" -> DocApi

t == <<"t">>

\* the bindings the registry is constructed from
BindingPool ==
    { \* the document and the filter settings of test_include_exclude_tags_paths
      OpenAPISpec("test", "tags", t, None, url_a,
                  NoFilter, NoFilter, NoFilter, NoFilter),
      OpenAPISpec("test", "tags", t, None, url_a,
                  Globs(<<A>>), NoFilter, NoFilter, NoFilter),
      OpenAPISpec("test", "tags", t, None, url_a,
                  NoFilter, Globs(<<B>>), NoFilter, NoFilter),
      OpenAPISpec("test", "tags", t, None, url_a,
                  NoFilter, NoFilter, Globs(<<p_bar>>), NoFilter),
      OpenAPISpec("test", "tags", t, None, url_a,
                  NoFilter, NoFilter, NoFilter, Globs(<<p_baz>>)),
      OpenAPISpec("test", "tags", t, None, url_a,
                  Globs(<<C>>), NoFilter, NoFilter, Globs(<<p_bar>>)),
      OpenAPISpec("test", "tags", t, None, url_a,
                  Globs(<<C>>), NoFilter, NoFilter, NoFilter),
      \* glob patterns, empty lists, all four filters at once
      OpenAPISpec("test", "tags", t, None, url_a,
                  NoFilter, Globs(<<D>>), Globs(<<<<"/", "b", "a", "?">>>>), NoFilter),
      OpenAPISpec("test", "tags", t, None, url_a,
                  Globs(<<>>), NoFilter, Globs(<<>>), Globs(<<<<"*", "z">>>>)),
      OpenAPISpec("test", "tags", t, None, url_a,
                  Globs(<<B, D>>), Globs(<<A>>), Globs(<<<<"/", "*">>>>),
                  Globs(<<p_foo>>)),
      \* the same names under another service and base address
      OpenAPISpec("sms", "tags", t, "Basic", url_b,
                  NoFilter, NoFilter, NoFilter, NoFilter),
      \* request bodies, untagged operations, unbuildable operations
      OpenAPISpec("sms", "bodies", t, "Basic", url_b,
                  NoFilter, NoFilter, NoFilter, NoFilter),
      OpenAPISpec("test", "bodies", <<>>, None, url_a,
                  Globs(<<<<"*">>>>), NoFilter, NoFilter, NoFilter),
      OpenAPISpec("cfg", "bodies", <<>>, "Bearer", <<>>,
                  NoFilter, NoFilter, NoFilter, NoFilter),
      OpenAPISpec("sms", "nocontent", t, "Bearer", url_b,
                  NoFilter, NoFilter, NoFilter, NoFilter),
      OpenAPISpec("test", "emptybody", t, None, url_a,
                  NoFilter, NoFilter, NoFilter, NoFilter),
      \* the same document under a second prefix, as in
      \* test_multispec_prefix_and_baseurl, and under a prefix with a colon
      OpenAPISpec("nokey", "bodies", <<"k">>, "Bearer", url_a,
                  NoFilter, NoFilter, NoFilter, NoFilter),
      OpenAPISpec("test", "bodies", <<"t", ":", "X">>, None, url_a,
                  NoFilter, NoFilter, NoFilter, NoFilter),
      \* a document that does not load, a binding without any base address
      OpenAPISpec("test", "missing", t, None, url_a,
                  NoFilter, NoFilter, NoFilter, NoFilter),
      OpenAPISpec("test", "tags", t, None, <<>>,
                  NoFilter, NoFilter, NoFilter, NoFilter) }

BindingLists == UNION {[1..n -> BindingPool] : n \in 1..MaxBindings}

EmptyDict == <<>>

\* the state at the start of OpenAPIToolCaller.__init__
InitRegistry ==
    /\ openapi_specs \in BindingLists
    /\ pc = "load"
    /\ i = 1
    /\ j = 0
    /\ heap = EmptyDict
    /\ tools = EmptyDict
    /\ registry = EmptyDict
    /\ tool_base_urls = EmptyDict
    /\ tool_specs = EmptyDict
    /\ survived = {}
    /\ recorded = {}
    /\ callers = {}
    /\ calls = EmptyDict
    /\ d = EmptyDict
    /\ open_files = {}
    /\ replies = EmptyDict
    /\ synth = NoCall
    /\ resolve = NoCall

AtBinding == pc = "load" /\ i <= Len(openapi_specs)
AtOperation == pc = "ops" /\ j <= Len(heap[i])

\* SkipLoadFailure that leaves the loop over the bindings (break for continue)
SkipLoadFailure_break ==
    /\ AtBinding
    /\ LoadFails(openapi_specs[i])
    /\ i' = Len(openapi_specs) + 1
    /\ UNCHANGED <<openapi_specs, pc, j, heap, tools, registry,
                   tool_base_urls, tool_specs, survived, recorded>>
    /\ UNCHANGED <<disp_vars, fn_vars>>

\* tool_caller.py:92-99: the document does not load; the binding is skipped
SkipLoadFailure ==
    /\ AtBinding
    /\ LoadFails(openapi_specs[i])
    /\ i' = i + 1
    /\ UNCHANGED <<openapi_specs, pc, j, heap, tools, registry,
                   tool_base_urls, tool_specs, survived, recorded>>
    /\ UNCHANGED <<disp_vars, fn_vars>>

\* SkipNoBaseUrl that goes on to load the document of a binding without
\* base address
SkipNoBaseUrl_loads ==
    /\ AtBinding
    /\ ~LoadFails(openapi_specs[i])
    /\ BaseUrlOf(openapi_specs[i]) = <<>>
    /\ heap' = Put(heap, i, load_openapi_spec(openapi_specs[i].file_location))
    /\ j' = 1
    /\ pc' = "ops"
    /\ UNCHANGED <<openapi_specs, i, tools, registry, tool_base_urls,
                   tool_specs, survived, recorded>>
    /\ UNCHANGED <<disp_vars, fn_vars>>

\* tool_caller.py:103-110: no base address resolves; the binding is skipped
SkipNoBaseUrl ==
    /\ AtBinding
    /\ ~LoadFails(openapi_specs[i])
    /\ BaseUrlOf(openapi_specs[i]) = <<>>
    /\ i' = i + 1
    /\ UNCHANGED <<openapi_specs, pc, j, heap, tools, registry,
                   tool_base_urls, tool_specs, survived, recorded>>
    /\ UNCHANGED <<disp_vars, fn_vars>>

\* tool_caller.py:116, 161-162: enter _add_tools_from_spec with the loaded
\* document
BeginSpec ==
    /\ AtBinding
    /\ ~LoadFails(openapi_specs[i])
    /\ BaseUrlOf(openapi_specs[i]) # <<>>
    /\ heap' = Put(heap, i, load_openapi_spec(openapi_specs[i].file_location))
    /\ j' = 1
    /\ pc' = "ops"
    /\ UNCHANGED <<openapi_specs, i, tools, registry, tool_base_urls,
                   tool_specs, survived, recorded>>
    /\ UNCHANGED <<disp_vars, fn_vars>>

\* tool_caller.py:164-165
SkipNonVerb ==
    /\ AtOperation
    /\ OpOutcome(heap, i, j, openapi_specs[i]) = "nonverb"
    /\ j' = j + 1
    /\ UNCHANGED <<openapi_specs, pc, i, heap, tools, registry,
                   tool_base_urls, tool_specs, survived, recorded>>
    /\ UNCHANGED <<disp_vars, fn_vars>>

\* tool_caller.py:171-181
SkipFiltered ==
    /\ AtOperation
    /\ OpOutcome(heap, i, j, openapi_specs[i]) = "filtered"
    /\ j' = j + 1
    /\ UNCHANGED <<openapi_specs, pc, i, heap, tools, registry,
                   tool_base_urls, tool_specs, survived, recorded>>
    /\ UNCHANGED <<disp_vars, fn_vars>>

\* tool_caller.py:183-187
SkipBuildError ==
    /\ AtOperation
    /\ OpOutcome(heap, i, j, openapi_specs[i]) = "builderror"
    /\ j' = j + 1
    /\ survived' = survived \cup {<<i, j>>}
    /\ UNCHANGED <<openapi_specs, pc, i, heap, tools, registry,
                   tool_base_urls, tool_specs, recorded>>
    /\ UNCHANGED <<disp_vars, fn_vars>>

\* tool_caller.py:198-202: next(iter(content)) raises StopIteration outside
\* the try block; the exception leaves _add_tools_from_spec and __init__
RaiseFromConstructor ==
    /\ AtOperation
    /\ OpOutcome(heap, i, j, openapi_specs[i]) = "raise"
    /\ pc' = "raised"
    /\ survived' = survived \cup {<<i, j>>}
    /\ UNCHANGED <<openapi_specs, i, j, heap, tools, registry,
                   tool_base_urls, tool_specs, recorded>>
    /\ UNCHANGED <<disp_vars, fn_vars>>

\* Record that keeps the base address a name already has
Record_stale_base_url(R, spec_obj, ref, k) ==
    LET operation == R.heap[ref][k]
        built == generate_tool_from_operation(R.heap, ref, operation.path,
                                              operation.method, spec_obj.prefix)
        tool == built.tool
    IN  [heap |-> built.heap,
         tools |-> Put(R.tools, tool.name, tool),
         registry |-> Put(R.registry, tool.name,
                          OperationMeta(operation, tool, spec_obj)),
         tool_base_urls |-> IF tool.name \in DOMAIN R.tool_base_urls
                            THEN R.tool_base_urls
                            ELSE Put(R.tool_base_urls, tool.name, BaseUrlOf(spec_obj)),
         tool_specs |-> Put(R.tool_specs, tool.name, ref)]

\* tool_caller.py:183-215 on the registry R = (heap and the four maps):
\* build the descriptor of operation k of the document at R.heap[ref] and
\* store it, its metadata, the base address and the document under its name
Record(R, spec_obj, ref, k) ==
    LET operation == R.heap[ref][k]
        built == generate_tool_from_operation(R.heap, ref, operation.path,
                                              operation.method, spec_obj.prefix)
        tool == built.tool
    IN  [heap |-> built.heap,
         tools |-> Put(R.tools, tool.name, tool),
         registry |-> Put(R.registry, tool.name,
                          OperationMeta(operation, tool, spec_obj)),
         tool_base_urls |-> Put(R.tool_base_urls, tool.name, BaseUrlOf(spec_obj)),
         tool_specs |-> Put(R.tool_specs, tool.name, ref)]

Self == [heap |-> heap, tools |-> tools, registry |-> registry,
         tool_base_urls |-> tool_base_urls, tool_specs |-> tool_specs]

RecordTool ==
    /\ AtOperation
    /\ OpOutcome(heap, i, j, openapi_specs[i]) = "record"
    /\ LET R == Record(Self, openapi_specs[i], i, j)
       IN  /\ heap' = R.heap
           /\ tools' = R.tools
           /\ registry' = R.registry
           /\ tool_base_urls' = R.tool_base_urls
           /\ tool_specs' = R.tool_specs
    /\ j' = j + 1
    /\ survived' = survived \cup {<<i, j>>}
    /\ recorded' = recorded \cup {<<i, j>>}
    /\ UNCHANGED <<openapi_specs, pc, i>>
    /\ UNCHANGED <<disp_vars, fn_vars>>

\* the end of the document: back to the loop over the bindings
EndSpec ==
    /\ pc = "ops"
    /\ j > Len(heap[i])
    /\ i' = i + 1
    /\ pc' = "load"
    /\ UNCHANGED <<openapi_specs, j, heap, tools, registry, tool_base_urls,
                   tool_specs, survived, recorded>>
    /\ UNCHANGED <<disp_vars, fn_vars>>

\* tool_caller.py:129-130: the constructor returns
FinishConstruction ==
    /\ pc = "load"
    /\ i > Len(openapi_specs)
    /\ pc' = "ready"
    /\ UNCHANGED <<openapi_specs, i, j, heap, tools, registry, tool_base_urls,
                   tool_specs, survived, recorded>>
    /\ UNCHANGED <<disp_vars, fn_vars>>

NextRegistry ==
    \/ SkipLoadFailure
    \/ SkipNoBaseUrl
    \/ BeginSpec
    \/ SkipNonVerb
    \/ SkipFiltered
    \/ SkipBuildError
    \/ RaiseFromConstructor
    \/ RecordTool
    \/ EndSpec
    \/ FinishConstruction

vars == <<ctor_vars, disp_vars, fn_vars>>

SpecRegistry == InitRegistry /\ [][NextRegistry]_vars

----------------------------------------------------------------------------
(* Values, arguments and the environment of a dispatch *)

\* Python values: t is the type, v the content as a sequence
Str(chars) == [t |-> "str", v |-> chars]
IntV(digits) == [t |-> "int", v |-> digits]
List(items) == [t |-> "list", v |-> items]
Dict(pairs) == [t |-> "dict", v |-> pairs]
NoneV == [t |-> "none", v |-> <<>>]

\* bool(x)
IsTruthy(x) ==
    CASE x.t = "none" -> FALSE
      [] x.t = "int" -> x.v # <<"0">>
      [] OTHER -> x.v # <<>>

\* str(x) for the values substituted into a URL
StrOf(x) == IF x.t \in {"str", "int"} THEN x.v ELSE <<"<", x.t, ">">>

\* an ordered dict is a sequence of <<key, value>> pairs with distinct keys
Keys(m) == {m[k][1] : k \in 1..Len(m)}
Get(m, key) == m[CHOOSE k \in 1..Len(m) : m[k][1] = key][2]
Without(m, key) == LET keep(pair) == pair[1] # key IN SelectSeq(m, keep)

\* s.replace(old, new) for a non-empty old
RECURSIVE ReplaceAll(_, _, _)
ReplaceAll(s, old, new) ==
    IF Len(s) < Len(old) THEN s
    ELSE IF SubSeq(s, 1, Len(old)) = old
         THEN new \o ReplaceAll(SubSeq(s, Len(old) + 1, Len(s)), old, new)
         ELSE <<Head(s)>> \o ReplaceAll(Tail(s), old, new)

\* os.path.basename
RECURSIVE basename(_)
basename(path) ==
    IF \E k \in 1..Len(path) : path[k] = "/"
    THEN basename(SubSeq(path, (CHOOSE k \in 1..Len(path) : path[k] = "/") + 1,
                         Len(path)))
    ELSE path

cwd == <<"/", "w">>

\* file_path if os.path.isabs(file_path) else os.path.join(os.getcwd(), file_path)
ResolvedPath(file_path) ==
    IF file_path # <<>> /\ Head(file_path) = "/" THEN file_path
    ELSE cwd \o <<"/">> \o file_path

\* mimetypes.guess_type(name)[0] or "application/octet-stream"
GuessType(name) ==
    IF Len(name) > 4 /\ SubSeq(name, Len(name) - 3, Len(name)) = <<".", "t", "x", "t">>
    THEN "text/plain" ELSE "application/octet-stream"

f_txt == <<"a", ".", "t", "x", "t">>
f_bin == <<"/", "b">>
f_gone == <<"g">>

\* the files that open() can open
ExistingFiles == {ResolvedPath(f_txt), ResolvedPath(f_bin)}

\* config.get_openapi_authentication(service) of config.yaml; the process
\* environment has none of the *_API_KEY, *_API_SECRET, *_API_TOKEN variables
get_openapi_authentication(service) ==
    CASE service = "sms" -> [api_key |-> <<"k">>, api_secret |-> <<"s">>, api_token |-> <<>>]
      [] service = "tok" -> [api_key |-> <<>>, api_secret |-> <<>>, api_token |-> <<"t", "k">>]
      [] OTHER -> [api_key |-> <<>>, api_secret |-> <<>>, api_token |-> <<>>]

\* auth_type.lower()
AuthLower(auth_type) ==
    CASE auth_type = "Basic" -> "basic"
      [] auth_type = "Bearer" -> "bearer"
      [] OTHER -> auth_type

\* get_auth_header(auth_type, service_name): the header dict, or the error
\* raised
get_auth_header(auth_type, service_name) ==
    LET auth == get_openapi_authentication(service_name)
    IN  IF auth_type = None
        THEN [raised |-> TRUE, error |-> "AttributeError", header |-> EmptyDict]
        ELSE IF AuthLower(auth_type) = "basic"
        THEN IF auth.api_key = <<>> \/ auth.api_secret = <<>>
             THEN [raised |-> TRUE, error |-> "RuntimeError", header |-> EmptyDict]
             ELSE [raised |-> FALSE, error |-> "",
                   header |-> [n \in {Authorization} |->
                      Str(<<"Basic ", "b64(">> \o auth.api_key \o <<":">>
                              \o auth.api_secret \o <<")">>)]]
        ELSE IF AuthLower(auth_type) = "bearer"
        THEN IF auth.api_token = <<>>
             THEN [raised |-> TRUE, error |-> "RuntimeError", header |-> EmptyDict]
             ELSE [raised |-> FALSE, error |-> "",
                   header |-> [n \in {Authorization} |->
                                  Str(<<"Bearer ">> \o auth.api_token)]]
        ELSE [raised |-> TRUE, error |-> "ValueError", header |-> EmptyDict]

\* {**a, **b}
Merge(a, b) ==
    [n \in DOMAIN a \cup DOMAIN b |-> IF n \in DOMAIN b THEN b[n] ELSE a[n]]

\* OpenAPIToolCaller.create_headers(meta, headers)
create_headers(meta, headers) ==
    LET auth == get_auth_header(meta.auth_type, meta.service_name)
        content_type_header == [n \in {ContentType} |-> Str(<<meta.conten_media_type>>)]
    IN  [raised |-> auth.raised, error |-> auth.error,
         headers |-> Merge(auth.header, Merge(headers, content_type_header))]

\* meta.conten_media_type.lower() or "application/json"
MediaLower(media) ==
    CASE media = "Text/Plain" -> "text/plain"
      [] media = "" -> JSON
      [] OTHER -> media

\* the responses the transport may return: status code, text of the body,
\* and the value resp.json() parses it to, if it parses
Response(status_code, text, parses, json) ==
    [status_code |-> status_code, text |-> text, parses |-> parses, json |-> json]

\* one or two status codes of each class of final responses (RFC 9110: 2xx
\* successful, 3xx redirection, 4xx client error, 5xx server error)
StatusCodes == {200, 204, 302, 404, 500}

Responses ==
    {Response(sc, <<"[", "1", "]">>, TRUE, List(<<IntV(<<"1">>)>>)) : sc \in StatusCodes}
        \cup {Response(sc, <<"o", "k">>, FALSE, NoneV) : sc \in StatusCodes}

\* resp.raise_for_status() raises HTTPError: requests does so for the client
\* and server error classes
RaisesForStatus(status_code) == status_code >= 400 /\ status_code < 600

----------------------------------------------------------------------------
(* Request dispatcher: OpenAPIToolCaller.call_tool *)

attachment == <<"a", "t", "t", "a", "c", "h", "m", "e", "n", "t">>

\* how a dispatch ends: an exception raised to the caller, or a value returned
NoOutcome ==
    [kind |-> "none", error |-> "", message |-> "", arg |-> <<>>, status |-> 0,
     value |-> NoneV]
Raise(error, message, arg) ==
    [kind |-> "raise", error |-> error, message |-> message, arg |-> arg,
     status |-> 0, value |-> NoneV]
RaiseHTTPError(status_code) ==
    [kind |-> "raise", error |-> "HTTPError", message |-> "", arg |-> <<>>,
     status |-> status_code, value |-> NoneV]
Return(value) ==
    [kind |-> "return", error |-> "", message |-> "", arg |-> <<>>, status |-> 0,
     value |-> value]

\* request_kwargs
NoRequest ==
    [method |-> <<>>, url |-> <<>>, params |-> NoneV, headers |-> EmptyDict,
     json |-> NoneV, data |-> NoneV, files |-> <<>>]

\* the frame of one call_tool invocation.  trail lists what the dispatch has
\* done so far: "lookup" (registry lookup), "required" (required-argument
\* validation), "auth" (credential resolution), "open" (an attachment
\* opened), "send" (a request handed to the transport)
IdleFrame ==
    [phase |-> "Idle", tool_name |-> <<>>, arguments |-> <<>>,
     path_params |-> <<>>, query_params |-> <<>>, headers |-> <<>>,
     req_body |-> NoneV, request |-> NoRequest, attachments |-> <<>>,
     files |-> <<>>, sent |-> <<>>, responses |-> <<>>, outcome |-> NoOutcome,
     trail |-> <<>>]

\* index of the last name of required that is not a key of arguments
FirstMissing_last(required, arguments) ==
    IF \E k \in 1..Len(required) : required[k] \notin Keys(arguments)
    THEN CHOOSE k \in 1..Len(required) :
            /\ required[k] \notin Keys(arguments)
            /\ \A m \in (k + 1)..Len(required) : required[m] \in Keys(arguments)
    ELSE 0

\* index of the first name of required that is not a key of arguments, 0
\* when there is none (tool_caller.py:255-257)
FirstMissing(required, arguments) ==
    IF \E k \in 1..Len(required) : required[k] \notin Keys(arguments)
    THEN CHOOSE k \in 1..Len(required) :
            /\ required[k] \notin Keys(arguments)
            /\ \A m \in 1..(k - 1) : required[m] \in Keys(arguments)
    ELSE 0

\* Validation with the required-argument loop ahead of the registry lookup
Validation_required_first(tool_name, arguments) ==
    IF tool_name \notin DOMAIN tools \/ tool_name \notin DOMAIN registry
    THEN [outcome |-> Raise("ValueError", "Unknown tool:", tool_name),
          trail |-> <<"required", "lookup">>]
    ELSE LET required == tools[tool_name].inputSchema.required
             m == FirstMissing(required, arguments)
         IN  IF m # 0
             THEN [outcome |-> Raise("ValueError", "Missing required argument:",
                                     required[m]),
                   trail |-> <<"required", "lookup">>]
             ELSE IF tool_base_urls[tool_name] = <<>>
             THEN [outcome |-> Raise("ValueError", "No base URL found for tool:",
                                     tool_name),
                   trail |-> <<"required", "lookup">>]
             ELSE [outcome |-> NoOutcome, trail |-> <<"required", "lookup">>]

\* tool_caller.py:241-262: registry lookup, required-argument validation,
\* base address
Validation(tool_name, arguments) ==
    IF tool_name \notin DOMAIN tools \/ tool_name \notin DOMAIN registry
    THEN [outcome |-> Raise("ValueError", "Unknown tool:", tool_name),
          trail |-> <<"lookup">>]
    ELSE LET required == tools[tool_name].inputSchema.required
             m == FirstMissing(required, arguments)
         IN  IF m # 0
             THEN [outcome |-> Raise("ValueError", "Missing required argument:",
                                     required[m]),
                   trail |-> <<"lookup", "required">>]
             ELSE IF tool_base_urls[tool_name] = <<>>
             THEN [outcome |-> Raise("ValueError", "No base URL found for tool:",
                                     tool_name),
                   trail |-> <<"lookup", "required">>]
             ELSE [outcome |-> NoOutcome, trail |-> <<"lookup", "required">>]

\* LocationOf with "body" as the location of a key that is not declared
LocationOf_default_body(meta, pname) ==
    IF pname \in DOMAIN meta.param_locations
    THEN meta.param_locations[pname] ELSE "body"

\* meta.param_locations.get(pname, "query")
LocationOf(meta, pname) ==
    IF pname \in DOMAIN meta.param_locations
    THEN meta.param_locations[pname] ELSE "query"

\* the arguments whose location is loc, in the order of the arguments
Partition(meta, arguments, loc) ==
    LET at(pair) == LocationOf(meta, pair[1]) = loc
    IN  SelectSeq(arguments, at)

AsDict(pairs) == [n \in Keys(pairs) |-> Get(pairs, n)]

\* tool_caller.py:284-285
RECURSIVE SubstitutePathParams(_, _)
SubstitutePathParams(url, path_params) ==
    IF path_params = <<>> THEN url
    ELSE SubstitutePathParams(
             ReplaceAll(url, <<"{">> \o Head(path_params)[1] \o <<"}">>,
                        StrOf(Head(path_params)[2])),
             Tail(path_params))

OrNone(x) == IF IsTruthy(x) THEN x ELSE NoneV

\* Encoded that leaves the content type header of a multipart request
\* without attachment as create_headers built it
Encoded_keeps_media_type(tool_name, arguments) ==
    LET meta == registry[tool_name]
        base_url == tool_base_urls[tool_name]
        url == SubstitutePathParams(RStrip(base_url, "/") \o meta.path,
                                    Partition(meta, arguments, "path"))
        query_params == Dict(Partition(meta, arguments, "query"))
        headers == AsDict(Partition(meta, arguments, "header"))
        req_body == IF body \in Keys(arguments) THEN Get(arguments, body)
                    ELSE Dict(Partition(meta, arguments, "body"))
        created == create_headers(meta, headers)
        content_type == MediaLower(meta.conten_media_type)
        request == [NoRequest EXCEPT !.method = meta.method, !.url = url,
                                     !.params = OrNone(query_params),
                                     !.headers = created.headers]
        attachments == IF attachment \in Keys(req_body.v)
                       THEN Get(req_body.v, attachment) ELSE NoneV
    IN  IF created.raised
        THEN [next |-> "Done", outcome |-> Raise(created.error, "auth header", <<>>),
              req_body |-> req_body, request |-> NoRequest, attachments |-> <<>>]
        ELSE IF content_type = JSON
        THEN [next |-> "Sending", outcome |-> NoOutcome, req_body |-> req_body,
              request |-> [request EXCEPT !.json = OrNone(req_body)],
              attachments |-> <<>>]
        ELSE IF content_type = FORM
        THEN [next |-> "Sending", outcome |-> NoOutcome, req_body |-> req_body,
              request |-> [request EXCEPT !.data = OrNone(req_body)],
              attachments |-> <<>>]
        ELSE IF content_type = MULTIPART
        THEN IF req_body.t # "dict"
             THEN [next |-> "Done",
                   outcome |-> Raise("AttributeError", "get", <<>>),
                   req_body |-> req_body, request |-> request, attachments |-> <<>>]
             ELSE IF ~IsTruthy(attachments)
             THEN [next |-> "Sending", outcome |-> NoOutcome, req_body |-> req_body,
                   request |-> [request EXCEPT !.data = OrNone(req_body)],
                   attachments |-> <<>>]
             ELSE [next |-> "Opening", outcome |-> NoOutcome, req_body |-> req_body,
                   request |-> request,
                   attachments |-> IF attachments.t = "list" THEN attachments.v
                                   ELSE <<attachments>>]
        ELSE [next |-> "Sending", outcome |-> NoOutcome, req_body |-> req_body,
              request |-> request, attachments |-> <<>>]

\* tool_caller.py:263-316: the request up to the opening of attachments.
\* next is the phase the dispatch goes to.
Encoded(tool_name, arguments) ==
    LET meta == registry[tool_name]
        base_url == tool_base_urls[tool_name]
        url == SubstitutePathParams(RStrip(base_url, "/") \o meta.path,
                                    Partition(meta, arguments, "path"))
        query_params == Dict(Partition(meta, arguments, "query"))
        headers == AsDict(Partition(meta, arguments, "header"))
        req_body == IF body \in Keys(arguments) THEN Get(arguments, body)
                    ELSE Dict(Partition(meta, arguments, "body"))
        created == create_headers(meta, headers)
        content_type == MediaLower(meta.conten_media_type)
        request == [NoRequest EXCEPT !.method = meta.method, !.url = url,
                                     !.params = OrNone(query_params),
                                     !.headers = created.headers]
        attachments == IF attachment \in Keys(req_body.v)
                       THEN Get(req_body.v, attachment) ELSE NoneV
    IN  IF created.raised
        THEN [next |-> "Done", outcome |-> Raise(created.error, "auth header", <<>>),
              req_body |-> req_body, request |-> NoRequest, attachments |-> <<>>]
        ELSE IF content_type = JSON
        THEN [next |-> "Sending", outcome |-> NoOutcome, req_body |-> req_body,
              request |-> [request EXCEPT !.json = OrNone(req_body)],
              attachments |-> <<>>]
        ELSE IF content_type = FORM
        THEN [next |-> "Sending", outcome |-> NoOutcome, req_body |-> req_body,
              request |-> [request EXCEPT !.data = OrNone(req_body)],
              attachments |-> <<>>]
        ELSE IF content_type = MULTIPART
        THEN IF req_body.t # "dict"
             THEN [next |-> "Done",
                   outcome |-> Raise("AttributeError", "get", <<>>),
                   req_body |-> req_body, request |-> request, attachments |-> <<>>]
             ELSE IF ~IsTruthy(attachments)
             THEN [next |-> "Sending", outcome |-> NoOutcome, req_body |-> req_body,
                   request |-> [request EXCEPT
                                   !.headers = Put(@, ContentType, Str(<<FORM>>)),
                                   !.data = OrNone(req_body)],
                   attachments |-> <<>>]
             ELSE [next |-> "Opening", outcome |-> NoOutcome, req_body |-> req_body,
                   request |-> request,
                   attachments |-> IF attachments.t = "list" THEN attachments.v
                                   ELSE <<attachments>>]
        ELSE [next |-> "Sending", outcome |-> NoOutcome, req_body |-> req_body,
              request |-> request, attachments |-> <<>>]

\* tool_caller.py:335-349: the form fields, the files, the content type
\* header removed
MultipartRequest(request, req_body, files) ==
    LET fields == Without(req_body.v, attachment)
        form_fields ==
            [k \in 1..Len(fields) |->
                IF fields[k][2].t = "str"
                THEN <<fields[k][1],
                       Str(ReplaceAll(fields[k][2].v, <<"\\", "n">>, <<"\n">>))>>
                ELSE fields[k]]
    IN  [request EXCEPT
            !.files = files,
            !.data = OrNone(Dict(form_fields)),
            !.headers = [n \in DOMAIN request.headers \ {ContentType} |->
                            request.headers[n]]]

\* ResultOf that lets the decode error out when the body is not JSON
ResultOf_parse_fails(resp) ==
    IF RaisesForStatus(resp.status_code) THEN RaiseHTTPError(resp.status_code)
    ELSE IF resp.parses THEN Return(resp.json)
    ELSE Raise("JSONDecodeError", "", <<>>)

\* tool_caller.py:362-366 for the response the transport returned
ResultOf(resp) ==
    IF RaisesForStatus(resp.status_code) THEN RaiseHTTPError(resp.status_code)
    ELSE IF resp.parses THEN Return(resp.json)
    ELSE Return(Str(resp.text))

Handles(file_parts) == {file_parts[k].file_obj : k \in 1..Len(file_parts)}

\* a caller invokes call_tool(tool_name, arguments) on the constructed
\* registry
CallTool(c, tool_name, arguments) ==
    /\ pc = "ready"
    /\ d[c].phase = "Idle"
    /\ calls[c] < MaxCalls
    /\ calls' = [calls EXCEPT ![c] = @ + 1]
    /\ d' = [d EXCEPT ![c] = [IdleFrame EXCEPT !.phase = "Validating",
                                               !.tool_name = tool_name,
                                               !.arguments = arguments]]
    /\ UNCHANGED <<ctor_vars, fn_vars, replies, callers, open_files>>

\* tool_caller.py:241-262
Validate(c) ==
    /\ d[c].phase = "Validating"
    /\ LET checked == Validation(d[c].tool_name, d[c].arguments)
       IN  d' = [d EXCEPT ![c].trail = checked.trail,
                          ![c].outcome = checked.outcome,
                          ![c].phase = IF checked.outcome.kind = "raise"
                                       THEN "Done" ELSE "Encoding"]
    /\ UNCHANGED <<ctor_vars, fn_vars, replies, callers, calls, open_files>>

\* tool_caller.py:263-316
Encode(c) ==
    /\ d[c].phase = "Encoding"
    /\ LET enc == Encoded(d[c].tool_name, d[c].arguments)
           meta == registry[d[c].tool_name]
       IN  d' = [d EXCEPT ![c].trail = Append(@, "auth"),
                          ![c].path_params = Partition(meta, d[c].arguments, "path"),
                          ![c].query_params = Partition(meta, d[c].arguments, "query"),
                          ![c].headers = Partition(meta, d[c].arguments, "header"),
                          ![c].req_body = enc.req_body,
                          ![c].request = enc.request,
                          ![c].attachments = enc.attachments,
                          ![c].outcome = enc.outcome,
                          ![c].phase = enc.next]
    /\ UNCHANGED <<ctor_vars, fn_vars, replies, callers, calls, open_files>>

\* tool_caller.py:318-331, one turn of the loop over the attachments: the
\* path is not a string or the file does not open (the exception leaves
\* call_tool), or the handle is appended to files
OpenAttachment(c) ==
    /\ d[c].phase = "Opening"
    /\ Len(d[c].files) < Len(d[c].attachments)
    /\ LET k == Len(d[c].files) + 1
           file_path == d[c].attachments[k]
           resolved_path == ResolvedPath(file_path.v)
           file_obj == [owner |-> c, call |-> calls[c], k |-> k]
       IN  IF file_path.t # "str"
           THEN /\ d' = [d EXCEPT ![c].phase = "Done",
                                  ![c].outcome = Raise("ValueError",
                                      "Attachment path must be a string", <<>>)]
                /\ UNCHANGED open_files
           ELSE IF resolved_path \notin ExistingFiles
           THEN /\ d' = [d EXCEPT ![c].phase = "Done",
                                  ![c].outcome = Raise("ValueError",
                                      "Failed to open attachment file:", resolved_path)]
                /\ UNCHANGED open_files
           ELSE /\ d' = [d EXCEPT ![c].trail = Append(@, "open"),
                                  ![c].files = Append(@,
                                      [field |-> "attachment",
                                       filename |-> basename(resolved_path),
                                       file_obj |-> file_obj,
                                       mime_type |-> GuessType(basename(resolved_path))])]
                /\ open_files' = open_files \cup {file_obj}
    /\ UNCHANGED <<ctor_vars, fn_vars, replies, callers, calls>>

\* tool_caller.py:333-349
BuildMultipart(c) ==
    /\ d[c].phase = "Opening"
    /\ Len(d[c].files) = Len(d[c].attachments)
    /\ d' = [d EXCEPT ![c].request = MultipartRequest(@, d[c].req_body, d[c].files),
                      ![c].phase = "Sending"]
    /\ UNCHANGED <<ctor_vars, fn_vars, replies, callers, calls, open_files>>

\* tool_caller.py:352-361: preparing the request raises (the body cannot be
\* encoded); the finally block closes the files
SendEncodingFails(c) ==
    /\ d[c].phase = "Sending"
    /\ d' = [d EXCEPT ![c].phase = "Done",
                      ![c].outcome = Raise("EncodingError", "prepare_request", <<>>)]
    /\ open_files' = open_files \ Handles(d[c].files)
    /\ UNCHANGED <<ctor_vars, fn_vars, replies, callers, calls>>

\* SendTransportFails that sends the request again after the failure
SendTransportFails_retry(c) ==
    /\ d[c].phase = "Sending"
    /\ d' = [d EXCEPT ![c].trail = Append(@, "send"),
                      ![c].sent = Append(@, d[c].request)]
    /\ UNCHANGED <<ctor_vars, fn_vars, replies, callers, calls, open_files>>

\* tool_caller.py:352-361: the transport raises; the finally block closes
\* the files
SendTransportFails(c) ==
    /\ d[c].phase = "Sending"
    /\ d' = [d EXCEPT ![c].phase = "Done",
                      ![c].trail = Append(@, "send"),
                      ![c].sent = Append(@, d[c].request),
                      ![c].outcome = Raise("ConnectionError", "send", <<>>)]
    /\ open_files' = open_files \ Handles(d[c].files)
    /\ UNCHANGED <<ctor_vars, fn_vars, replies, callers, calls>>

\* SendResponds whose finally block closes every open attachment, those of
\* the other dispatches included (files kept on the instance)
SendResponds_closes_all(c, resp) ==
    /\ d[c].phase = "Sending"
    /\ d' = [d EXCEPT ![c].phase = "Done",
                      ![c].trail = Append(@, "send"),
                      ![c].sent = Append(@, d[c].request),
                      ![c].responses = Append(@, resp),
                      ![c].outcome = ResultOf(resp)]
    /\ open_files' = {}
    /\ UNCHANGED <<ctor_vars, fn_vars, replies, callers, calls>>

\* tool_caller.py:352-366: the transport returns a response; the finally
\* block closes the files; the status is checked and the body parsed
SendResponds(c, resp) ==
    /\ d[c].phase = "Sending"
    /\ d' = [d EXCEPT ![c].phase = "Done",
                      ![c].trail = Append(@, "send"),
                      ![c].sent = Append(@, d[c].request),
                      ![c].responses = Append(@, resp),
                      ![c].outcome = ResultOf(resp)]
    /\ open_files' = open_files \ Handles(d[c].files)
    /\ UNCHANGED <<ctor_vars, fn_vars, replies, callers, calls>>

\* server.call_tool that lets an HTTP error through
ServerReply_propagates_http(outcome) ==
    IF outcome.kind = "return"
    THEN [returned |-> TRUE,
          contents |-> <<[type |-> "text", text |-> [json |-> outcome.value]]>>]
    ELSE IF outcome.error = "HTTPError"
    THEN [returned |-> FALSE, contents |-> <<>>]
    ELSE [returned |-> TRUE,
          contents |-> <<[type |-> "text",
                          text |-> [json |-> [error |->
                              [type |-> outcome.error,
                               message |-> <<outcome.message, outcome.arg,
                                             outcome.status>>]]]]>>]

\* server.py:97-115: what server.call_tool hands back for the outcome of
\* tool_caller.call_tool.  json.dumps of a value is [json |-> value]; the
\* message str(e) is made of the error's text, its argument and, for an
\* HTTP error, the status.  returned is FALSE when an exception leaves
\* server.call_tool.
ServerReply(outcome) ==
    IF outcome.kind = "return"
    THEN [returned |-> TRUE,
          contents |-> <<[type |-> "text", text |-> [json |-> outcome.value]]>>]
    ELSE [returned |-> TRUE,
          contents |-> <<[type |-> "text",
                          text |-> [json |-> [error |->
                              [type |-> outcome.error,
                               message |-> <<outcome.message, outcome.arg,
                                             outcome.status>>]]]]>>]

\* tool_caller.call_tool has returned or raised: server.call_tool hands its
\* reply back (server.py:97-115) and the caller may dispatch again
Finish(c) ==
    /\ d[c].phase = "Done"
    /\ replies' = [replies EXCEPT ![c] = Append(@, ServerReply(d[c].outcome))]
    /\ d' = [d EXCEPT ![c] = IdleFrame]
    /\ UNCHANGED <<ctor_vars, fn_vars, callers, calls, open_files>>

\* the binding list of the dispatching process: a document that does not
\* load, a binding without base address, the API document under service
\* "sms" (Basic credentials configured) and under service "nokey" (Bearer,
\* no token configured), the same document under service "tok" (Bearer,
\* token configured) and under an auth type that is neither Basic nor
\* Bearer, and a filtered document with request bodies and no auth type
ApiBindings ==
    << OpenAPISpec("test", "missing", t, None, url_a,
                   NoFilter, NoFilter, NoFilter, NoFilter),
       OpenAPISpec("test", "tags", t, None, <<>>,
                   NoFilter, NoFilter, NoFilter, NoFilter),
       OpenAPISpec("sms", "api", <<"s">>, "Basic", url_b,
                   NoFilter, NoFilter, NoFilter, NoFilter),
       OpenAPISpec("nokey", "api", <<"k">>, "Bearer", url_a,
                   NoFilter, NoFilter, Globs(<<<<"/", "u", "/", "*">>>>), NoFilter),
       OpenAPISpec("tok", "api", <<"b">>, "Bearer", url_a,
                   NoFilter, NoFilter, Globs(<<<<"/", "u", "/", "*">>>>), NoFilter),
       OpenAPISpec("sms", "api", <<"x">>, "ApiKey", url_a,
                   NoFilter, NoFilter, Globs(<<<<"/", "u", "/", "*">>, p_y>>),
                   NoFilter),
       OpenAPISpec("test", "bodies", <<>>, None, url_a,
                   NoFilter, NoFilter, NoFilter, Globs(<<p_y>>)) >>

\* a binding list on which the constructor raises
RaisingBindings ==
    << OpenAPISpec("test", "emptybody", t, None, url_a,
                   NoFilter, NoFilter, NoFilter, NoFilter) >>

s_U == <<"s", ":", "U">>
s_J == <<"s", ":", "J">>
s_M == <<"s", ":", "M">>
s_T == <<"s", ":", "T">>
s_P == <<"s", ":", "P">>
s_N == <<"s", ":", "N">>
k_U == <<"k", ":", "U">>
k_n == <<"n">>

Invocation(tool_name, arguments) == [tool_name |-> tool_name, arguments |-> arguments]

\* the (action name, arguments) pairs the callers dispatch
Invocations ==
    { \* names that are not registered
      Invocation(<<"U">>, <<>>),
      Invocation(<<"s", ":", "Q">>, << <<id, Str(<<"7">>)>>, <<q, Str(<<"x">>)>> >>),
      Invocation(<<"k", ":", "M">>, << <<body, Dict(<<>>)>> >>),
      \* required arguments missing: both, the first, the second, body
      Invocation(s_U, <<>>),
      Invocation(s_U, << <<q, Str(<<"x">>)>> >>),
      Invocation(s_U, << <<id, IntV(<<"7">>)>> >>),
      Invocation(s_J, << <<ContentType, Str(<<"t">>)>> >>),
      Invocation(s_M, << <<k_n, Str(<<"v">>)>> >>),
      \* complete arguments
      Invocation(s_U, << <<q, Str(<<"x">>)>>, <<id, IntV(<<"7">>)>> >>),
      Invocation(k_U, << <<id, Str(<<"7">>)>>, <<q, Str(<<"x">>)>> >>),
      Invocation(s_J, << <<body, Dict(<< <<k_n, Str(<<"v">>)>> >>)>> >>),
      Invocation(s_J, << <<body, Dict(<< <<k_n, Str(<<"v">>)>> >>)>>,
                         <<ContentType, Str(<<"t">>)>>,
                         <<Authorization, Str(<<"m">>)>> >>),
      Invocation(s_T, << <<body, Dict(<< <<k_n, Str(<<"v">>)>> >>)>> >>),
      \* a key that is not declared, a body for an operation without request
      \* body
      Invocation(s_U, << <<q, Str(<<"x">>)>>, <<id, IntV(<<"7">>)>>,
                         <<k_n, Str(<<"v">>)>> >>),
      Invocation(s_U, << <<q, Str(<<"x">>)>>, <<id, IntV(<<"7">>)>>,
                         <<body, Dict(<< <<k_n, Str(<<"v">>)>> >>)>> >>),
      \* path parameters: both, the value of one is the placeholder of the
      \* other, one missing; a cookie; a parameter declared in the body,
      \* alone and next to a body
      Invocation(s_P, << <<<<"a">>, Str(<<"1">>)>>, <<<<"b">>, IntV(<<"2">>)>> >>),
      Invocation(s_P, << <<<<"a">>, Str(<<"{", "b", "}">>)>>,
                         <<<<"b">>, Str(<<"x">>)>> >>),
      Invocation(s_P, << <<<<"b">>, Str(<<"x">>)>> >>),
      Invocation(s_P, << <<<<"c", "k">>, Str(<<"v">>)>> >>),
      Invocation(s_P, << <<<<"p", "l">>, Str(<<"v">>)>> >>),
      Invocation(s_P, << <<<<"p", "l">>, Str(<<"v">>)>>,
                         <<body, Dict(<< <<k_n, Str(<<"w">>)>> >>)>> >>),
      \* the auth types: Bearer with a token, an unsupported one (arguments
      \* missing, complete, with an attachment), none at all
      Invocation(<<"b", ":", "U">>, << <<id, Str(<<"7">>)>>, <<q, Str(<<"x">>)>> >>),
      Invocation(<<"x", ":", "U">>, << <<q, Str(<<"x">>)>> >>),
      Invocation(<<"x", ":", "U">>, << <<id, Str(<<"7">>)>>, <<q, Str(<<"x">>)>> >>),
      Invocation(<<"x", ":", "M">>, << <<body, Dict(<< <<attachment, Str(f_txt)>> >>)>> >>),
      Invocation(<<"Z">>, <<>>),
      \* multipart with the content type header supplied under either
      \* spelling, without and with an attachment
      Invocation(s_N, << <<body, Dict(<< <<k_n, Str(<<"v">>)>> >>)>>,
                         <<ContentType, Str(<<"t">>)>> >>),
      Invocation(s_N, << <<body, Dict(<< <<k_n, Str(<<"v">>)>> >>)>>,
                         <<ct_lower, Str(<<"t">>)>> >>),
      Invocation(s_N, << <<ContentType, Str(<<"t">>)>> >>),
      Invocation(s_N, << <<body, Dict(<< <<attachment, Str(f_txt)>> >>)>>,
                         <<ContentType, Str(<<"t">>)>> >>),
      Invocation(s_N, << <<body, Dict(<< <<attachment, Str(f_txt)>> >>)>>,
                         <<ct_lower, Str(<<"t">>)>> >>),
      \* multipart: no attachment, one path, two paths, a path that does not
      \* open after one that does, a non-string after a path that opens, a
      \* path that does not open
      Invocation(s_M, << <<body, Dict(<< <<k_n, Str(<<"v">>)>> >>)>> >>),
      Invocation(s_M, << <<body, Dict(<< <<attachment, Str(f_txt)>>,
                                         <<k_n, Str(<<"a", "\\", "n", "b">>)>> >>)>> >>),
      Invocation(s_M, << <<body, Dict(<< <<attachment,
                                           List(<<Str(f_txt), Str(f_bin)>>)>> >>)>> >>),
      Invocation(s_M, << <<body, Dict(<< <<attachment,
                                           List(<<Str(f_txt), Str(f_gone)>>)>> >>)>> >>),
      Invocation(s_M, << <<body, Dict(<< <<attachment,
                                           List(<<Str(f_bin), IntV(<<"5">>)>>)>> >>)>> >>),
      Invocation(s_M, << <<body, Dict(<< <<attachment, Str(f_gone)>> >>)>> >>) }

Callers == {"c1"}

\* the constructor starts; the callers wait for the registry
Init ==
    /\ openapi_specs \in {ApiBindings, RaisingBindings}
    /\ pc = "load"
    /\ i = 1
    /\ j = 0
    /\ heap = EmptyDict
    /\ tools = EmptyDict
    /\ registry = EmptyDict
    /\ tool_base_urls = EmptyDict
    /\ tool_specs = EmptyDict
    /\ survived = {}
    /\ recorded = {}
    /\ callers = Callers
    /\ calls = [c \in Callers |-> 0]
    /\ d = [c \in Callers |-> IdleFrame]
    /\ open_files = {}
    /\ replies = [c \in Callers |-> <<>>]
    /\ synth = NoCall
    /\ resolve = NoCall

NextDispatch ==
    \/ \E c \in callers : \E inv \in Invocations :
          CallTool(c, inv.tool_name, inv.arguments)
    \/ \E c \in callers : Validate(c)
    \/ \E c \in callers : Encode(c)
    \/ \E c \in callers : OpenAttachment(c)
    \/ \E c \in callers : BuildMultipart(c)
    \/ \E c \in callers : SendEncodingFails(c)
    \/ \E c \in callers : SendTransportFails(c)
    \/ \E c \in callers : \E resp \in Responses : SendResponds(c, resp)
    \/ \E c \in callers : Finish(c)

Next == NextRegistry \/ NextDispatch

Spec == Init /\ [][Next]_vars

----------------------------------------------------------------------------
(* The registry as a function of the binding list *)

EmptyRegistry ==
    [heap |-> EmptyDict, tools |-> EmptyDict, registry |-> EmptyDict,
     tool_base_urls |-> EmptyDict, tool_specs |-> EmptyDict]

\* _add_tools_from_spec from operation k on; the constructor's inputs here
\* have no operation that makes it raise
RECURSIVE AddToolsFromSpec(_, _, _, _)
AddToolsFromSpec(R, spec_obj, ref, k) ==
    IF k > Len(R.heap[ref]) THEN R
    ELSE IF OpOutcome(R.heap, ref, k, spec_obj) = "record"
         THEN AddToolsFromSpec(Record(R, spec_obj, ref, k), spec_obj, ref, k + 1)
         ELSE AddToolsFromSpec(R, spec_obj, ref, k + 1)

\* OpenAPIToolCaller(specs) from binding n on
RECURSIVE Construct(_, _, _)
Construct(R, specs, n) ==
    IF n > Len(specs) THEN R
    ELSE IF LoadFails(specs[n]) \/ BaseUrlOf(specs[n]) = <<>>
         THEN Construct(R, specs, n + 1)
         ELSE Construct(
                  AddToolsFromSpec(
                      [R EXCEPT !.heap = Put(@, n, load_openapi_spec(specs[n].file_location))],
                      specs[n], n, 1),
                  specs, n + 1)

\* What a registry holds for each name, with every reference replaced by
\* the object it refers to
Contents(R) ==
    [n \in DOMAIN R.tools |->
        [name |-> R.tools[n].name,
         required |-> R.tools[n].inputSchema.required,
         properties |->
             [pn \in DOMAIN R.tools[n].inputSchema.properties |->
                 LET prop == R.tools[n].inputSchema.properties[pn]
                 IN  IF prop.kind = "body"
                     THEN R.heap[prop.at[1]][prop.at[2]].requestBody.content[1]
                     ELSE prop],
         meta |-> R.registry[n],
         base_url |-> R.tool_base_urls[n],
         spec |-> R.heap[R.tool_specs[n]]]]

Usable(spec_obj) == ~LoadFails(spec_obj) /\ BaseUrlOf(spec_obj) # <<>>

----------------------------------------------------------------------------
(* Concurrent dispatches on the constructed registry *)

\* the operations of the binding list that the constructor passes to the
\* filters and past them, and those it stores
OpsWith(specs, outcomes) ==
    {bk \in UNION {{<<b, k>> : k \in 1..Len(load_openapi_spec(specs[b].file_location))} :
                      b \in {n \in 1..Len(specs) : Usable(specs[n])}} :
        OpOutcome([n \in {bk[1]} |-> load_openapi_spec(specs[n].file_location)],
                  bk[1], bk[2], specs[bk[1]]) \in outcomes}

ConcurrentCallers == {"c1", "c2"}

\* the dispatches run side by side: a multipart upload of two files, the
\* same with a second file that does not open, and a body-less GET
ConcurrentInvocations ==
    { Invocation(s_M, << <<body, Dict(<< <<attachment,
                                           List(<<Str(f_txt), Str(f_bin)>>)>> >>)>> >>),
      Invocation(s_M, << <<body, Dict(<< <<attachment,
                                           List(<<Str(f_txt), Str(f_gone)>>)>> >>)>> >>),
      Invocation(s_U, << <<q, Str(<<"x">>)>>, <<id, IntV(<<"7">>)>> >>) }

ConcurrentResponses ==
    { Response(200, <<"[", "1", "]">>, TRUE, List(<<IntV(<<"1">>)>>)),
      Response(404, <<"o", "k">>, FALSE, NoneV) }

\* construction of ApiBindings has finished; two callers share the registry
InitConcurrent ==
    LET R == Construct(EmptyRegistry, ApiBindings, 1)
    IN  /\ openapi_specs = ApiBindings
        /\ pc = "ready"
        /\ i = Len(ApiBindings) + 1
        /\ j = Len(R.heap[Len(ApiBindings)]) + 1
        /\ heap = R.heap
        /\ tools = R.tools
        /\ registry = R.registry
        /\ tool_base_urls = R.tool_base_urls
        /\ tool_specs = R.tool_specs
        /\ survived = OpsWith(ApiBindings, {"builderror", "raise", "record"})
        /\ recorded = OpsWith(ApiBindings, {"record"})
        /\ callers = ConcurrentCallers
        /\ calls = [c \in ConcurrentCallers |-> 0]
        /\ d = [c \in ConcurrentCallers |-> IdleFrame]
        /\ open_files = {}
        /\ replies = [c \in ConcurrentCallers |-> <<>>]
        /\ synth = NoCall
        /\ resolve = NoCall

NextConcurrent ==
    \/ \E c \in callers : \E inv \in ConcurrentInvocations :
          CallTool(c, inv.tool_name, inv.arguments)
    \/ \E c \in callers : Validate(c)
    \/ \E c \in callers : Encode(c)
    \/ \E c \in callers : OpenAttachment(c)
    \/ \E c \in callers : BuildMultipart(c)
    \/ \E c \in callers : SendEncodingFails(c)
    \/ \E c \in callers : SendTransportFails(c)
    \/ \E c \in callers : \E resp \in ConcurrentResponses : SendResponds(c, resp)
    \/ \E c \in callers : Finish(c)

SpecConcurrent == InitConcurrent /\ [][NextConcurrent]_vars

\* the name under which operation k of binding b is registered
NameAt(b, k) ==
    ToolName(heap[b][k], heap[b][k].path, heap[b][k].method, openapi_specs[b].prefix)

\* the last operation, in processing order, recorded under the name
Owner(name) ==
    CHOOSE bk \in recorded :
        /\ NameAt(bk[1], bk[2]) = name
        /\ \A other \in recorded :
              NameAt(other[1], other[2]) = name =>
                  \/ other[1] < bk[1]
                  \/ (other[1] = bk[1] /\ other[2] <= bk[2])

\* the operations of the documents loaded so far, as <<binding, operation>>
LoadedOps == UNION {{<<b, k>> : k \in 1..Len(heap[b])} : b \in DOMAIN heap}

\* the operations the loop has gone past
Passed == {bk \in LoadedOps :
              /\ \/ bk[1] < i
                 \/ pc = "ready"
                 \/ (bk[1] = i /\ pc = "ops" /\ bk[2] < j)}

----------------------------------------------------------------------------
(* Properties of the registry *)

\* a filter is unset when it is None or an empty list
Unset(f) == ~f.set \/ f.pats = <<>>

FiltersPass(spec_obj, operation) ==
    /\ \/ Unset(spec_obj.include_paths)
       \/ \E g \in Range(spec_obj.include_paths.pats) : fnmatch(operation.path, g)
    /\ \/ Unset(spec_obj.exclude_paths)
       \/ \A g \in Range(spec_obj.exclude_paths.pats) : ~fnmatch(operation.path, g)
    /\ \/ Unset(spec_obj.include_tags)
       \/ \E tg \in Range(operation.tags) :
             \E g \in Range(spec_obj.include_tags.pats) : fnmatch(tg, g)
    /\ \/ Unset(spec_obj.exclude_tags)
       \/ \A tg \in Range(operation.tags) :
             \A g \in Range(spec_obj.exclude_tags.pats) : ~fnmatch(tg, g)

\* the operations of binding b stored in the maps
RecordedOf(b) == {bk[2] : bk \in {r \in recorded : r[1] = b}}

TagsBinding(b, it, et, ip, ep) ==
    /\ b \in DOMAIN heap
    /\ (b < i \/ pc = "ready")
    /\ openapi_specs[b].file_location = "tags"
    /\ openapi_specs[b].include_tags = it
    /\ openapi_specs[b].exclude_tags = et
    /\ openapi_specs[b].include_paths = ip
    /\ openapi_specs[b].exclude_paths = ep

\* an operation whose descriptor and metadata can be built
Buildable(b, k) ==
    /\ ~generate_tool_from_operation(heap, b, heap[b][k].path, heap[b][k].method,
                                     openapi_specs[b].prefix).raised
    /\ ~(heap[b][k].requestBody.present /\ heap[b][k].requestBody.content = <<>>)

C7_LaterBindingWinsInEveryMap ==
    pc = "ready" =>
        /\ DOMAIN tools = {NameAt(bk[1], bk[2]) : bk \in recorded}
        /\ DOMAIN registry = DOMAIN tools
        /\ DOMAIN tool_base_urls = DOMAIN tools
        /\ DOMAIN tool_specs = DOMAIN tools
        /\ \A name \in DOMAIN tools :
              LET b == Owner(name)[1]
                  operation == heap[b][Owner(name)[2]]
                  spec_obj == openapi_specs[b]
              IN  /\ tools[name] =
                        generate_tool_from_operation(heap, b, operation.path,
                            operation.method, spec_obj.prefix).tool
                  /\ registry[name] = OperationMeta(operation, tools[name], spec_obj)
                  /\ tool_base_urls[name] = BaseUrlOf(spec_obj)
                  /\ tool_specs[name] = b

\* two bindings with different services and base addresses have both
\* recorded an operation under one name
C7_Witness ==
    /\ pc = "ready"
    /\ \E b1 \in recorded : \E b2 \in recorded :
          /\ b1[1] < b2[1]
          /\ NameAt(b1[1], b1[2]) = NameAt(b2[1], b2[2])
          /\ BaseUrlOf(openapi_specs[b1[1]]) # BaseUrlOf(openapi_specs[b2[1]])
          /\ openapi_specs[b1[1]].service_name # openapi_specs[b2[1]].service_name
          /\ heap[b1[1]][b1[2]].path # heap[b2[1]][b2[2]].path

\* C8: a binding whose document does not load, or for which no base address
\* resolves, contributes nothing and does not stop the loop: the registry
\* equals the registry constructed from the list without such bindings.
C8_SkippedBindingLeavesNoTrace ==
    pc = "ready" =>
        Contents(Self) =
            Contents(Construct(EmptyRegistry, SelectSeq(openapi_specs, Usable), 1))

\* a skipped binding is followed by a binding that registered operations
C8_Witness ==
    /\ pc = "ready"
    /\ \E b \in 1..Len(openapi_specs) :
          /\ ~Usable(openapi_specs[b])
          /\ \E b2 \in (b + 1)..Len(openapi_specs) : RecordedOf(b2) # {}

\* C9: a failure while turning a surviving operation into a registry entry
\* is confined to that operation: construction never raises, and every
\* surviving operation that can be built is registered while the failing one
\* is in none of the maps.
C9_BuildFailureConfined ==
    /\ pc # "raised"
    /\ pc = "ready" =>
          \A bk \in survived : bk \in recorded <=> Buildable(bk[1], bk[2])

\* the names of the parameters flagged required, in order
RequiredParams(operation) ==
    LET isReq(prm) == prm.required
        sel == SelectSeq(operation.parameters, isReq)
    IN  [k \in 1..Len(sel) |-> sel[k].name]

ParamNames(operation) ==
    {operation.parameters[k].name : k \in 1..Len(operation.parameters)}

\* the descriptors the builder yields for the operations of the loaded
\* documents
BuiltFrom(b, k) ==
    generate_tool_from_operation(heap, b, heap[b][k].path, heap[b][k].method,
                                 openapi_specs[b].prefix)

PrefixPairs ==
    {bb \in (1..Len(openapi_specs)) \X (1..Len(openapi_specs)) :
        /\ bb[1] # bb[2]
        /\ Usable(openapi_specs[bb[1]]) /\ Usable(openapi_specs[bb[2]])
        /\ openapi_specs[bb[1]].file_location = openapi_specs[bb[2]].file_location
        /\ openapi_specs[bb[1]].prefix # <<>>
        /\ openapi_specs[bb[2]].prefix # <<>>
        /\ openapi_specs[bb[1]].prefix # openapi_specs[bb[2]].prefix}

\* every operation recorded for the first binding of the pair is registered
\* under "prefix:derived name" in the four maps, no operation of the second
\* binding has overwritten it, and while the first binding is the last to
\* have recorded the name the entry carries that binding's service name,
\* auth type, base address and document
BoundToOwnPrefix(bb) ==
    \A k \in RecordedOf(bb[1]) :
        LET spec_obj == openapi_specs[bb[1]]
            operation == heap[bb[1]][k]
            name == NameAt(bb[1], k)
        IN  /\ name = spec_obj.prefix \o <<":">>
                        \o ToolName(operation, operation.path, operation.method, <<>>)
            /\ name \in DOMAIN tools /\ name \in DOMAIN registry
            /\ name \in DOMAIN tool_base_urls /\ name \in DOMAIN tool_specs
            /\ tools[name].name = name
            /\ Owner(name)[1] # bb[2]
            /\ Owner(name)[1] = bb[1] =>
                  /\ registry[name].service_name = spec_obj.service_name
                  /\ registry[name].auth_type = spec_obj.auth_type
                  /\ tool_base_urls[name] = BaseUrlOf(spec_obj)
                  /\ tool_specs[name] = bb[1]

\* C18 as stated: loading the same document under two bindings with
\* distinct non-empty prefixes registers every surviving operation under
\* each prefix, bound to the binding whose prefix the name carries, and the
\* entries of one binding never overwrite those of the other.
C18_TwoPrefixesNeverOverwrite ==
    pc = "ready" => \A bb \in PrefixPairs : BoundToOwnPrefix(bb)

\* C18 amended: the same for prefixes that contain no colon.
C18_ColonFreePrefixesNeverOverwrite ==
    pc = "ready" =>
        \A bb \in PrefixPairs :
            (/\ ":" \notin Range(openapi_specs[bb[1]].prefix)
             /\ ":" \notin Range(openapi_specs[bb[2]].prefix))
                => BoundToOwnPrefix(bb)

\* construction has finished with the same operation registered under two
\* colon-free prefixes, each entry carrying its own binding's service name
C18_Witness ==
    /\ pc = "ready"
    /\ \E bb \in PrefixPairs :
          /\ ":" \notin Range(openapi_specs[bb[1]].prefix)
          /\ ":" \notin Range(openapi_specs[bb[2]].prefix)
          /\ \E k \in RecordedOf(bb[1]) \cap RecordedOf(bb[2]) :
                /\ registry[NameAt(bb[1], k)].service_name
                      = openapi_specs[bb[1]].service_name
                /\ registry[NameAt(bb[2], k)].service_name
                      = openapi_specs[bb[2]].service_name
                /\ openapi_specs[bb[1]].service_name
                      # openapi_specs[bb[2]].service_name

\* C19: the required list of every built descriptor is ordered-unique: the
\* names of the parameters flagged required in order of first appearance,
\* then body when a request body is present, and no name more than once,
\* also when the operation declares the same parameter name twice.
C19_RequiredOrderedUnique ==
    \A name \in DOMAIN tools :
        LET required == tools[name].inputSchema.required
        IN  \A m, n \in 1..Len(required) : required[m] = required[n] => m = n

----------------------------------------------------------------------------
(* Properties of the dispatcher *)

\* the dispatch of caller c has passed validation (or failed in it)
Validated(c) == d[c].phase \notin {"Idle", "Validating"}

Registered(tool_name) == tool_name \in DOMAIN tools /\ tool_name \in DOMAIN registry

\* nothing of the request has happened: no credential resolved, no file
\* opened, nothing handed to the transport
NothingDone(c) ==
    /\ d[c].sent = <<>>
    /\ d[c].responses = <<>>
    /\ d[c].files = <<>>
    /\ \A h \in open_files : ~(h.owner = c /\ h.call = calls[c])
    /\ \A k \in 1..Len(d[c].trail) : d[c].trail[k] \notin {"auth", "open", "send"}

\* C1: a dispatch of a registered action whose arguments lack a name of the
\* required list fails with the missing-required-argument error that names
\* the first absent name of the list, and only that name, before any file
\* is opened or any request is sent.
C1_FirstMissingRequiredReported ==
    \A c \in callers :
        LET required == tools[d[c].tool_name].inputSchema.required
            absent == {k \in 1..Len(required) :
                          required[k] \notin Keys(d[c].arguments)}
        IN  (Validated(c) /\ Registered(d[c].tool_name) /\ absent # {}) =>
              /\ d[c].phase = "Done"
              /\ d[c].outcome.kind = "raise"
              /\ d[c].outcome.error = "ValueError"
              /\ d[c].outcome.message = "Missing required argument:"
              /\ \E k \in absent :
                    /\ \A m \in absent : k <= m
                    /\ d[c].outcome.arg = required[k]
              /\ NothingDone(c)

\* a dispatch failed on the first of two absent required names, and one on
\* the second name of the list with the first supplied
C1_Witness ==
    \E c \in callers :
        LET required == tools[d[c].tool_name].inputSchema.required
        IN  /\ d[c].phase = "Done"
            /\ Registered(d[c].tool_name)
            /\ Len(required) = 2
            /\ d[c].outcome.message = "Missing required argument:"
            /\ required[1] \notin Keys(d[c].arguments)
            /\ required[2] \notin Keys(d[c].arguments)
            /\ d[c].outcome.arg = required[1]

\* C2: a dispatch of a name that is not in the registry fails with the
\* unknown-action error whatever the arguments are, and the registry lookup
\* is all it has done: no required-argument validation, no credential
\* resolution, no file opened, no request sent.
C2_UnknownActionFailsFirst ==
    \A c \in callers :
        (Validated(c) /\ ~Registered(d[c].tool_name)) =>
            /\ d[c].phase = "Done"
            /\ d[c].outcome = Raise("ValueError", "Unknown tool:", d[c].tool_name)
            /\ d[c].trail = <<"lookup">>
            /\ NothingDone(c)

\* an unregistered name was dispatched with arguments
C2_Witness ==
    \E c \in callers :
        /\ d[c].phase = "Done"
        /\ ~Registered(d[c].tool_name)
        /\ d[c].arguments # <<>>
        /\ d[c].outcome.message = "Unknown tool:"

\* C3: when a dispatch has ended, on whatever path, every attachment file
\* handle it opened is closed.
C3_HandlesClosedOnEveryExit ==
    \A c \in callers :
        d[c].phase \in {"Done", "Idle"} => \A h \in open_files : h.owner # c

CallerHeaders(c) ==
    AsDict(Partition(registry[d[c].tool_name], d[c].arguments, "header"))

\* C5: the request headers are the auth header, overridden by the
\* Content-Type of the action's media type, overridden by the caller's
\* header arguments: a caller's Content-Type or Authorization is the one in
\* the outgoing headers (stated for the media types whose encoding leaves
\* the headers as merged).
C5_CallerHeadersOverride ==
    \A c \in callers :
        (d[c].phase = "Sending" /\ d[c].attachments = <<>>
           /\ MediaLower(registry[d[c].tool_name].conten_media_type) # MULTIPART) =>
            LET meta == registry[d[c].tool_name]
                auth == get_auth_header(meta.auth_type, meta.service_name)
                content_type_header ==
                    [h \in {ContentType} |-> Str(<<meta.conten_media_type>>)]
            IN  /\ d[c].request.headers =
                      Merge(Merge(auth.header, content_type_header), CallerHeaders(c))
                /\ \A h \in DOMAIN CallerHeaders(c) :
                      d[c].request.headers[h] = CallerHeaders(c)[h]

\* C15: at the boundary (server.call_tool) every dispatch that ends is
\* answered: the boundary returns exactly one text content, and when the
\* dispatch raised (unknown action, validation, auth, attachment, transport,
\* HTTP status) the text is the failure object with the error's type and
\* message; no error of a dispatch leaves the boundary.
C15_BoundaryAlwaysReplies ==
    [][\A c \in callers :
          (d[c].phase = "Done" /\ d'[c].phase = "Idle") =>
              /\ Len(replies'[c]) = Len(replies[c]) + 1
              /\ LET reply == replies'[c][Len(replies'[c])]
                     outcome == d[c].outcome
                 IN  /\ reply.returned
                     /\ Len(reply.contents) = 1
                     /\ reply.contents[1].type = "text"
                     /\ outcome.kind = "raise" =>
                           reply.contents[1].text =
                               [json |-> [error |->
                                   [type |-> outcome.error,
                                    message |-> <<outcome.message, outcome.arg,
                                                  outcome.status>>]]]
                     /\ outcome.kind = "return" =>
                           reply.contents[1].text = [json |-> outcome.value]]_vars

\* the boundary has answered a dispatch that failed with HTTP status 404
C15_Witness ==
    \E c \in callers :
        /\ Len(replies[c]) = 1
        /\ replies[c][1].returned
        /\ "error" \in DOMAIN replies[c][1].contents[1].text.json
        /\ replies[c][1].contents[1].text.json.error.type = "HTTPError"
        /\ replies[c][1].contents[1].text.json.error.message[3] = 404

\* position of a phase in Idle, Validating, Encoding, Sending; opening the
\* attachments is part of encoding, Done is the end of the dispatch
PhaseRank(phase) ==
    CASE phase = "Idle" -> 0
      [] phase = "Validating" -> 1
      [] phase \in {"Encoding", "Opening"} -> 2
      [] phase = "Sending" -> 3
      [] phase = "Done" -> 4

\* the terminal states a finished dispatch is in: Success (a value returned
\* for the one response), HttpError (the one response had an error status),
\* TransportError (the one request failed in the transport), ValidationError
\* (the dispatch failed before any request was handed to the transport)
TerminalStates(frame) ==
    {st \in {"Success", "HttpError", "TransportError", "ValidationError"} :
        CASE st = "Success" ->
                /\ frame.outcome.kind = "return"
                /\ Len(frame.sent) = 1 /\ Len(frame.responses) = 1
                /\ ~RaisesForStatus(frame.responses[1].status_code)
          [] st = "HttpError" ->
                /\ frame.outcome.kind = "raise"
                /\ frame.outcome.error = "HTTPError"
                /\ Len(frame.sent) = 1 /\ Len(frame.responses) = 1
                /\ frame.outcome.status = frame.responses[1].status_code
          [] st = "TransportError" ->
                /\ frame.outcome.kind = "raise"
                /\ frame.outcome.error # "HTTPError"
                /\ Len(frame.sent) = 1 /\ frame.responses = <<>>
          [] st = "ValidationError" ->
                /\ frame.outcome.kind = "raise"
                /\ frame.outcome.error # "HTTPError"
                /\ frame.sent = <<>> /\ frame.responses = <<>>}

\* C16: every dispatch moves through Idle, Validating, Encoding, Sending in
\* that order and never back, hands at most one request to the transport (no
\* retry after a transport failure or an error status), and ends in exactly
\* one of Success, HttpError, TransportError, ValidationError.
C16_SingleAttemptInPhaseOrder ==
    /\ [](\A c \in callers :
            /\ Len(d[c].sent) <= 1
            /\ d[c].phase = "Done" => Cardinality(TerminalStates(d[c])) = 1
            /\ d[c].phase # "Done" => d[c].outcome.kind = "none")
    /\ [][\A c \in callers :
            \/ d'[c] = d[c]
            \/ d[c].phase = "Done" /\ d'[c].phase = "Idle"
            \/ /\ d[c].phase # "Done"
               /\ PhaseRank(d'[c].phase) >= PhaseRank(d[c].phase)
               /\ d'[c].phase # "Done" =>
                     PhaseRank(d'[c].phase) <= PhaseRank(d[c].phase) + 1]_vars

\* a dispatch has gone through every phase and ended in TransportError after
\* its one request failed
C16_Witness ==
    \E c \in callers :
        /\ d[c].phase = "Done"
        /\ d[c].trail = <<"lookup", "required", "auth", "send">>
        /\ TerminalStates(d[c]) = {"TransportError"}

\* the file parts a dispatch of caller c builds for the attachments
OwnFiles(c, attachments) ==
    [k \in 1..Len(attachments) |->
        [field |-> "attachment",
         filename |-> basename(ResolvedPath(attachments[k].v)),
         file_obj |-> [owner |-> c, call |-> calls[c], k |-> k],
         mime_type |-> GuessType(basename(ResolvedPath(attachments[k].v)))]]

\* the request a dispatch of caller c hands to the transport when it runs
\* alone on the registry
RequestAlone(c, tool_name, arguments) ==
    LET enc == Encoded(tool_name, arguments)
    IN  IF enc.next = "Opening"
        THEN MultipartRequest(enc.request, enc.req_body, OwnFiles(c, enc.attachments))
        ELSE enc.request

\* C17: once construction has finished, whatever the interleaving of the
\* dispatches, the four registry maps and the documents, descriptors and
\* records they hold stay as construction left them; a step of one dispatch
\* changes no other dispatch's frame and closes no other dispatch's files;
\* and the request a dispatch sends and the outcome it ends with are those
\* it produces alone: the request computed from its own name and arguments,
\* the outcome from its own validation, encoding and response.
C17_DispatchesIndependent ==
    /\ [][pc = "ready" =>
            /\ UNCHANGED <<heap, tools, registry, tool_base_urls, tool_specs>>
            /\ \A c1, c2 \in callers :
                  (c1 # c2 /\ d'[c1] # d[c1]) =>
                      /\ d'[c2] = d[c2]
                      /\ {h \in open_files' : h.owner = c2}
                            = {h \in open_files : h.owner = c2}]_vars
    /\ [](\A c \in callers :
            LET frame == d[c]
                checked == Validation(frame.tool_name, frame.arguments)
            IN  /\ frame.sent # <<>> =>
                      frame.sent[1] = RequestAlone(c, frame.tool_name, frame.arguments)
                /\ frame.responses # <<>> =>
                      frame.outcome = ResultOf(frame.responses[1])
                /\ (frame.phase = "Done" /\ checked.outcome.kind = "raise") =>
                      frame.outcome = checked.outcome
                /\ (frame.phase = "Done" /\ checked.outcome.kind # "raise"
                        /\ Encoded(frame.tool_name, frame.arguments).outcome.kind = "raise") =>
                      frame.outcome = Encoded(frame.tool_name, frame.arguments).outcome)

\* both callers are in a dispatch of the same action with attachments open,
\* one of them already past its send
C17_Witness ==
    /\ d["c1"].tool_name = s_M /\ d["c2"].tool_name = s_M
    /\ d["c1"].phase = "Done" /\ d["c1"].sent # <<>> /\ Len(d["c1"].files) = 2
    /\ d["c2"].phase = "Sending" /\ Len(d["c2"].files) = 2
    /\ \E h \in open_files : h.owner = "c2"

----------------------------------------------------------------------------
(* Reference resolver and example synthesizer: utils/openapi_utils.py,
   example_generator.py *)

\* In this part a Python string is a sequence of pieces: the characters "#"
\* and "/" each are a piece of their own, every other piece is a run of
\* characters that holds neither.  The keys of a dict are whole strings.

\* the depth of nested calls at which the interpreter raises RecursionError
MaxDepth == 4

\* Python values in this part: a pair of the type and the content
str(pieces) == <<"str", pieces>>
int(digits) == <<"int", digits>>
float(digits) == <<"float", digits>>
bool(literal) == <<"bool", literal>>
list(items) == <<"list", items>>
dict(pairs) == <<"dict", pairs>>
none == <<"none", <<>>>>

\* what a call ends with: the value it returns or the exception it raises
Ok(value) == [raised |-> FALSE, error |-> "", value |-> value]
Err(error) == [raised |-> TRUE, error |-> error, value |-> none]

\* key in x, for a dict x
Has(x, key) == x[1] = "dict" /\ key \in Keys(x[2])

\* "".join(pieces)
RECURSIVE Join(_)
Join(pieces) == IF pieces = <<>> THEN "" ELSE Head(pieces) \o Join(Tail(pieces))

\* s.lstrip(chars)
RECURSIVE LStripAny(_, _)
LStripAny(s, chars) ==
    IF s # <<>> /\ Head(s) \in chars THEN LStripAny(Tail(s), chars) ELSE s

\* s.split("/")
RECURSIVE Split(_)
Split(s) ==
    IF \E k \in 1..Len(s) : s[k] = "/"
    THEN LET k == CHOOSE n \in 1..Len(s) :
                      s[n] = "/" /\ \A m \in 1..(n - 1) : s[m] # "/"
         IN  <<Join(SubSeq(s, 1, k - 1))>> \o Split(SubSeq(s, k + 1, Len(s)))
    ELSE <<Join(s)>>

\* the loop obj = obj[part] of _resolve_ref: KeyError when a dict lacks the
\* key, TypeError when obj is not a dict
RECURSIVE Walk(_, _)
Walk(obj, parts) ==
    IF parts = <<>> THEN Ok(obj)
    ELSE IF obj[1] # "dict" THEN Err("TypeError")
    ELSE IF Head(parts) \notin Keys(obj[2]) THEN Err("KeyError")
    ELSE Walk(Get(obj[2], Head(parts)), Tail(parts))

\* openapi_utils.py:1-9
_resolve_ref(spec, ref) ==
    IF ~(Len(ref) >= 2 /\ ref[1] = "#" /\ ref[2] = "/")
    THEN Err("ValueError")
    ELSE Walk(spec, Split(LStripAny(ref, {"#", "/"})))

\* the entries of an examples mapping the loop of example_generator.py:21-25
\* returns from: a dict with a value, or a string
ReturnsFrom(ex) == Has(ex, "value") \/ ex[1] = "str"

\* rules of lines 16-31 with the examples mapping consulted before the
\* example field
Annotated_examples_first(schema) ==
    LET examples == Get(schema[2], "examples")
    IN  IF Has(schema, "examples") /\ examples[1] = "dict"
             /\ \E k \in 1..Len(examples[2]) : ReturnsFrom(examples[2][k][2])
        THEN LET k == CHOOSE n \in 1..Len(examples[2]) :
                          /\ ReturnsFrom(examples[2][n][2])
                          /\ \A m \in 1..(n - 1) : ~ReturnsFrom(examples[2][m][2])
                 ex == examples[2][k][2]
             IN  [found |-> TRUE,
                  value |-> IF ex[1] = "dict" THEN Get(ex[2], "value") ELSE ex]
        ELSE IF Has(schema, "example")
        THEN [found |-> TRUE, value |-> Get(schema[2], "example")]
        ELSE IF Has(schema, "default")
        THEN [found |-> TRUE, value |-> Get(schema[2], "default")]
        ELSE IF Has(schema, "enum") /\ Get(schema[2], "enum")[1] = "list"
                  /\ Get(schema[2], "enum")[2] # <<>>
        THEN [found |-> TRUE, value |-> Get(schema[2], "enum")[2][1]]
        ELSE [found |-> FALSE, value |-> none]

\* example_generator.py:16-31: example, then the first entry of examples the
\* loop returns from, then default, then the first element of enum
Annotated(schema) ==
    LET examples == Get(schema[2], "examples")
    IN  IF Has(schema, "example")
        THEN [found |-> TRUE, value |-> Get(schema[2], "example")]
        ELSE IF Has(schema, "examples") /\ examples[1] = "dict"
                  /\ \E k \in 1..Len(examples[2]) : ReturnsFrom(examples[2][k][2])
        THEN LET k == CHOOSE n \in 1..Len(examples[2]) :
                          /\ ReturnsFrom(examples[2][n][2])
                          /\ \A m \in 1..(n - 1) : ~ReturnsFrom(examples[2][m][2])
                 ex == examples[2][k][2]
             IN  [found |-> TRUE,
                  value |-> IF ex[1] = "dict" THEN Get(ex[2], "value") ELSE ex]
        ELSE IF Has(schema, "default")
        THEN [found |-> TRUE, value |-> Get(schema[2], "default")]
        ELSE IF Has(schema, "enum") /\ Get(schema[2], "enum")[1] = "list"
                  /\ Get(schema[2], "enum")[2] # <<>>
        THEN [found |-> TRUE, value |-> Get(schema[2], "enum")[2][1]]
        ELSE [found |-> FALSE, value |-> none]

\* example_generator.py:44-62: the literals for the scalar types and the
\* fallback
ScalarExample(schema) ==
    LET typ == IF Has(schema, "type") THEN Get(schema[2], "type") ELSE none
        fmt == IF Has(schema, "format") THEN Get(schema[2], "format") ELSE none
    IN  CASE typ = str(<<"string">>) ->
                CASE fmt = str(<<"date-time">>) -> str(<<"2023-01-01T00:00:00Z">>)
                  [] fmt = str(<<"date">>) -> str(<<"2023-01-01">>)
                  [] fmt = str(<<"uuid">>) ->
                        str(<<"123e4567-e89b-12d3-a456-426614174000">>)
                  [] fmt = str(<<"email">>) -> str(<<"user@example.com">>)
                  [] OTHER -> str(<<"string">>)
          [] typ = str(<<"integer">>) -> int(<<"0">>)
          [] typ = str(<<"number">>) -> float(<<"0.0">>)
          [] typ = str(<<"boolean">>) -> bool(<<"True">>)
          [] OTHER -> str(<<"example">>)

\* the object of lines 37-40 with the aggregation key of the docstring
\* appended
ObjectExample_required_params(props, results) ==
    IF \E k \in 1..Len(results) : results[k].raised
    THEN results[CHOOSE k \in 1..Len(results) :
                    /\ results[k].raised
                    /\ \A m \in 1..(k - 1) : ~results[m].raised]
    ELSE Ok(dict([k \in 1..Len(props) |-> <<props[k][1], results[k].value>>]
                    \o << <<"__required_params__", list(<<>>)>> >>))

\* example_generator.py:37-40: example_obj[prop_name] for each property in
\* declaration order; the first nested call that raises ends the loop
ObjectExample(props, results) ==
    IF \E k \in 1..Len(results) : results[k].raised
    THEN results[CHOOSE k \in 1..Len(results) :
                    /\ results[k].raised
                    /\ \A m \in 1..(k - 1) : ~results[m].raised]
    ELSE Ok(dict([k \in 1..Len(props) |-> <<props[k][1], results[k].value>>]))

\* the synthesizer with a depth guard: at the depth limit it returns None
RECURSIVE generate_example_depth_guard(_, _, _)
generate_example_depth_guard(spec, node, depth) ==
    IF depth > MaxDepth THEN Ok(none)
    ELSE IF node[1] # "dict" THEN Err("TypeError")
    ELSE
    LET resolved == IF Has(node, "$ref")
                    THEN _resolve_ref(spec, Get(node[2], "$ref")[2])
                    ELSE Ok(node)
        schema == resolved.value
        typ == IF Has(schema, "type") THEN Get(schema[2], "type") ELSE none
    IN  IF resolved.raised THEN resolved
        ELSE IF schema[1] # "dict" THEN Err("TypeError")
        ELSE IF Annotated(schema).found THEN Ok(Annotated(schema).value)
        ELSE IF typ = str(<<"object">>)
        THEN LET props == IF Has(schema, "properties")
                          THEN Get(schema[2], "properties") ELSE dict(<<>>)
             IN  IF props[1] # "dict" THEN Err("AttributeError")
                 ELSE ObjectExample(props[2],
                          [k \in 1..Len(props[2]) |->
                              generate_example_depth_guard(spec, props[2][k][2],
                                                           depth + 1)])
        ELSE IF typ = str(<<"array">>)
        THEN LET items_schema == IF Has(schema, "items")
                                 THEN Get(schema[2], "items") ELSE dict(<<>>)
                 item == generate_example_depth_guard(spec, items_schema, depth + 1)
             IN  IF item.raised THEN item ELSE Ok(list(<<item.value>>))
        ELSE Ok(ScalarExample(schema))

\* example_generator.py:6-62; depth is the number of calls on the stack
RECURSIVE generate_example_from_schema(_, _, _)
generate_example_from_schema(spec, node, depth) ==
    IF depth > MaxDepth THEN Err("RecursionError")
    ELSE IF node[1] # "dict" THEN Err("TypeError")
    ELSE
    LET resolved == IF Has(node, "$ref")
                    THEN _resolve_ref(spec, Get(node[2], "$ref")[2])
                    ELSE Ok(node)
        schema == resolved.value
        typ == IF Has(schema, "type") THEN Get(schema[2], "type") ELSE none
    IN  IF resolved.raised THEN resolved
        ELSE IF schema[1] # "dict" THEN Err("TypeError")
        ELSE IF Annotated(schema).found THEN Ok(Annotated(schema).value)
        ELSE IF typ = str(<<"object">>)
        THEN LET props == IF Has(schema, "properties")
                          THEN Get(schema[2], "properties") ELSE dict(<<>>)
             IN  IF props[1] # "dict" THEN Err("AttributeError")
                 ELSE ObjectExample(props[2],
                          [k \in 1..Len(props[2]) |->
                              generate_example_from_schema(spec, props[2][k][2],
                                                           depth + 1)])
        ELSE IF typ = str(<<"array">>)
        THEN LET items_schema == IF Has(schema, "items")
                                 THEN Get(schema[2], "items") ELSE dict(<<>>)
                 item == generate_example_from_schema(spec, items_schema, depth + 1)
             IN  IF item.raised THEN item ELSE Ok(list(<<item.value>>))
        ELSE Ok(ScalarExample(schema))

\* the schema {"type": typ}
TypeNode(typ) == dict(<< <<"type", str(<<typ>>)>> >>)

\* the document the pointers are resolved against: an object schema S with
\* properties a (integer) and b (string), a node E with an example, a
\* nested mapping c, a schema L that refers to itself, a leaf t, a schema
\* G that refers to itself and has an example, an array schema I whose
\* items refer to it, two schemas P1 and P2 that refer to each other
SchemaDoc ==
    dict(<< <<"S", dict(<< <<"type", str(<<"object">>)>>,
                           <<"properties",
                             dict(<< <<"a", TypeNode("integer")>>,
                                     <<"b", TypeNode("string")>> >>)>> >>)>>,
            <<"E", dict(<< <<"example", str(<<"y">>)>>,
                           <<"type", str(<<"integer">>)>> >>)>>,
            <<"c", dict(<< <<"S", dict(<< <<"type", str(<<"string">>)>>,
                                          <<"format", str(<<"email">>)>> >>)>> >>)>>,
            <<"L", dict(<< <<"type", str(<<"object">>)>>,
                           <<"properties",
                             dict(<< <<"n", dict(<< <<"$ref",
                                        str(<<"#", "/", "L">>)>> >>)>> >>)>> >>)>>,
            <<"t", str(<<"x">>)>>,
            <<"G", dict(<< <<"example", str(<<"g">>)>>,
                           <<"type", str(<<"object">>)>>,
                           <<"properties",
                             dict(<< <<"n", dict(<< <<"$ref",
                                        str(<<"#", "/", "G">>)>> >>)>> >>)>> >>)>>,
            <<"I", dict(<< <<"type", str(<<"array">>)>>,
                           <<"items", dict(<< <<"$ref",
                                        str(<<"#", "/", "I">>)>> >>)>> >>)>>,
            <<"P1", dict(<< <<"type", str(<<"object">>)>>,
                            <<"properties",
                              dict(<< <<"a", TypeNode("integer")>>,
                                      <<"n", dict(<< <<"$ref",
                                        str(<<"#", "/", "P2">>)>> >>)>> >>)>> >>)>>,
            <<"P2", dict(<< <<"type", str(<<"object">>)>>,
                            <<"properties",
                              dict(<< <<"m", dict(<< <<"$ref",
                                        str(<<"#", "/", "P1">>)>> >>)>> >>)>> >>)>> >>)

\* the pointers handed to _resolve_ref
Pointers ==
    { <<"#", "/", "S">>,
      <<"#", "/", "c", "/", "S">>,
      <<"#", "/", "S", "/", "properties", "/", "b">>,
      \* a segment that is absent: at the root, below the root, after a leaf,
      \* the empty segments of "#/", "#/S/" and "#//S", the segment "#"
      <<"#", "/", "x">>,
      <<"#", "/", "c", "/", "x">>,
      <<"#", "/", "t", "/", "x">>,
      <<"#", "/">>,
      <<"#", "/", "S", "/">>,
      <<"#", "/", "/", "S">>,
      <<"#", "/", "#", "/", "S">>,
      \* no same-document marker
      <<"S">>,
      <<"/", "S">>,
      <<"#", "S">>,
      <<"o.json", "#", "/", "S">>,
      <<>> }

\* the schema nodes handed to generate_example_from_schema
SchemaNodes ==
    { \* an example next to other fields
      dict(<< <<"example", str(<<"x">>)>>, <<"type", str(<<"integer">>)>> >>),
      dict(<< <<"type", str(<<"object">>)>>,
              <<"properties", dict(<< <<"a", TypeNode("integer")>> >>)>>,
              <<"enum", list(<<str(<<"e">>)>>)>>,
              <<"default", str(<<"d">>)>>,
              <<"examples", dict(<< <<"one", str(<<"s">>)>> >>)>>,
              <<"example", int(<<"7">>)>> >>),
      dict(<< <<"example", str(<<"x">>)>>,
              <<"$ref", str(<<"#", "/", "E">>)>> >>),
      dict(<< <<"example", str(<<"x">>)>>,
              <<"$ref", str(<<"#", "/", "S">>)>> >>),
      \* examples: a mapping with a value first, a string first, an entry
      \* without value first, no entry to return from, not a mapping
      dict(<< <<"examples", dict(<< <<"one", dict(<< <<"value", int(<<"1">>)>> >>)>>,
                                    <<"two", str(<<"s">>)>> >>)>>,
              <<"default", str(<<"d">>)>> >>),
      dict(<< <<"examples", dict(<< <<"one", str(<<"s">>)>>,
                                    <<"two", dict(<< <<"value", int(<<"1">>)>> >>)>> >>)>>,
              <<"enum", list(<<str(<<"e">>)>>)>> >>),
      dict(<< <<"examples", dict(<< <<"one", dict(<< <<"summary", str(<<"s">>)>> >>)>>,
                                    <<"two", dict(<< <<"value", int(<<"2">>)>> >>)>> >>)>>,
              <<"default", str(<<"d">>)>> >>),
      dict(<< <<"examples", dict(<< <<"one", int(<<"3">>)>> >>)>>,
              <<"default", str(<<"d">>)>>,
              <<"enum", list(<<str(<<"e">>)>>)>> >>),
      dict(<< <<"examples", list(<<str(<<"s">>)>>)>>,
              <<"enum", list(<<str(<<"e">>), str(<<"f">>)>>)>>,
              <<"type", str(<<"string">>)>> >>),
      \* default, enum, an empty enum
      dict(<< <<"type", str(<<"integer">>)>>, <<"default", none>>,
              <<"enum", list(<<int(<<"5">>)>>)>> >>),
      dict(<< <<"enum", list(<<>>)>>, <<"type", str(<<"boolean">>)>> >>),
      \* the types
      dict(<< <<"type", str(<<"object">>)>>,
              <<"properties", dict(<< <<"a", TypeNode("integer")>>,
                                      <<"b", TypeNode("string")>> >>)>> >>),
      dict(<< <<"type", str(<<"object">>)>>,
              <<"properties",
                dict(<< <<"b", dict(<< <<"$ref", str(<<"#", "/", "E">>)>> >>)>>,
                        <<"o", dict(<< <<"type", str(<<"object">>)>>,
                                       <<"properties",
                                         dict(<< <<"n", TypeNode("number")>> >>)>> >>)>>,
                        <<"a", dict(<< <<"type", str(<<"array">>)>>,
                                       <<"items", TypeNode("boolean")>> >>)>> >>)>> >>),
      TypeNode("object"),
      dict(<< <<"type", str(<<"array">>)>>, <<"items", TypeNode("boolean")>> >>),
      TypeNode("array"),
      dict(<< <<"type", str(<<"string">>)>>, <<"format", str(<<"date">>)>> >>),
      TypeNode("number"),
      TypeNode("file"),
      dict(<<>>),
      \* a $ref at the root: to an object schema, to a nested node, to a
      \* node that is absent, to the schema that refers to itself, to a leaf
      dict(<< <<"$ref", str(<<"#", "/", "S">>)>> >>),
      dict(<< <<"$ref", str(<<"#", "/", "c", "/", "S">>)>> >>),
      dict(<< <<"$ref", str(<<"#", "/", "x">>)>> >>),
      dict(<< <<"$ref", str(<<"#", "/", "L">>)>> >>),
      dict(<< <<"$ref", str(<<"#", "/", "t">>)>> >>),
      \* schemas that reach themselves: with an example on the way, through
      \* items, through two schemas, below a property of the node, in the
      \* properties of a node whose type is not object
      dict(<< <<"$ref", str(<<"#", "/", "G">>)>> >>),
      dict(<< <<"$ref", str(<<"#", "/", "I">>)>> >>),
      dict(<< <<"$ref", str(<<"#", "/", "P1">>)>> >>),
      dict(<< <<"type", str(<<"object">>)>>,
              <<"properties",
                dict(<< <<"a", TypeNode("integer")>>,
                        <<"r", dict(<< <<"$ref", str(<<"#", "/", "L">>)>> >>)>> >>)>> >>),
      dict(<< <<"type", str(<<"string">>)>>,
              <<"properties",
                dict(<< <<"r", dict(<< <<"$ref", str(<<"#", "/", "L">>)>> >>)>> >>)>> >>),
      \* an absent pointer before and after a property that reaches itself
      dict(<< <<"type", str(<<"object">>)>>,
              <<"properties",
                dict(<< <<"x", dict(<< <<"$ref", str(<<"#", "/", "x">>)>> >>)>>,
                        <<"r", dict(<< <<"$ref", str(<<"#", "/", "L">>)>> >>)>> >>)>> >>),
      dict(<< <<"type", str(<<"object">>)>>,
              <<"properties",
                dict(<< <<"r", dict(<< <<"$ref", str(<<"#", "/", "L">>)>> >>)>>,
                        <<"x", dict(<< <<"$ref", str(<<"#", "/", "x">>)>> >>)>> >>)>> >>),
      \* a property whose $ref is absent after one that resolves
      dict(<< <<"type", str(<<"object">>)>>,
              <<"properties",
                dict(<< <<"a", TypeNode("integer")>>,
                        <<"r", dict(<< <<"$ref", str(<<"S">>)>> >>)>>,
                        <<"b", TypeNode("string")>> >>)>> >>) }

\* a call of generate_example_from_schema(spec, schema) and a call of
\* _resolve_ref(spec, ref) are about to run
InitSchema ==
    /\ openapi_specs = <<>>
    /\ pc = "load"
    /\ i = 1
    /\ j = 0
    /\ heap = EmptyDict
    /\ tools = EmptyDict
    /\ registry = EmptyDict
    /\ tool_base_urls = EmptyDict
    /\ tool_specs = EmptyDict
    /\ survived = {}
    /\ recorded = {}
    /\ callers = {}
    /\ calls = EmptyDict
    /\ d = EmptyDict
    /\ open_files = {}
    /\ replies = EmptyDict
    /\ synth \in {[phase |-> "call", spec |-> SchemaDoc, schema |-> node,
                   result |-> Ok(none)] : node \in SchemaNodes}
    /\ resolve \in {[phase |-> "call", spec |-> SchemaDoc, ref |-> ref,
                     result |-> Ok(none)] : ref \in Pointers}

\* generate_example_from_schema(spec, schema) runs to its end
Synthesize ==
    /\ synth.phase = "call"
    /\ synth' = [synth EXCEPT
                    !.phase = "done",
                    !.result = generate_example_from_schema(synth.spec,
                                                            synth.schema, 1)]
    /\ UNCHANGED <<ctor_vars, disp_vars, resolve>>

\* _resolve_ref(spec, ref) runs to its end
Resolve ==
    /\ resolve.phase = "call"
    /\ resolve' = [resolve EXCEPT
                      !.phase = "done",
                      !.result = _resolve_ref(resolve.spec, resolve.ref)]
    /\ UNCHANGED <<ctor_vars, disp_vars, synth>>

NextSchema == Synthesize \/ Resolve

SpecSchema == InitSchema /\ [][NextSchema]_vars

----------------------------------------------------------------------------
(* Properties of the reference resolver and the example synthesizer *)

\* the pointer begins with the same-document marker "#/"
IsLocal(ref) == Len(ref) >= 2 /\ ref[1] = "#" /\ ref[2] = "/"

\* the segments of a pointer: the text after the marker "#/", cut at
\* every "/"
PointerSegments(ref) == Split(SubSeq(ref, 3, Len(ref)))

\* C20: _resolve_ref fails with the unsupported-reference error for every
\* pointer that does not begin with "#/", fails with a broken-reference error
\* when a segment of the pointer is absent at its level, and otherwise
\* returns exactly the node reached by following the segments in order from
\* the root; the document is left as it was.
C20_ResolveFollowsPointer ==
    resolve.phase = "done" =>
        LET r == resolve.result
            followed == Walk(SchemaDoc, PointerSegments(resolve.ref))
        IN  /\ resolve.spec = SchemaDoc
            /\ IF ~IsLocal(resolve.ref)
               THEN r.raised /\ r.error = "ValueError"
               ELSE IF followed.raised
               THEN r.raised /\ r.error \in {"KeyError", "TypeError"}
               ELSE ~r.raised /\ r.value = followed.value

\* C11 as stated: for every schema node that carries an example field the
\* synthesizer returns exactly that field's value, whatever the other fields
\* of the node are, a $ref included.
C11_ExampleAlwaysWins ==
    (synth.phase = "done" /\ Has(synth.schema, "example")) =>
        synth.result = Ok(Get(synth.schema[2], "example"))

\* C11: for every schema node that carries an example field and no $ref the
\* synthesizer returns exactly that field's value, whatever the node's type,
\* examples, default, enum and properties are; a node with a $ref is replaced
\* by the node the $ref resolves to before any field is read, so the example
\* returned is that of the resolved node.
C11_ExampleWinsAfterRef ==
    synth.phase = "done" =>
        LET node == synth.schema
            target == _resolve_ref(synth.spec, Get(node[2], "$ref")[2])
        IN  /\ (Has(node, "example") /\ ~Has(node, "$ref")) =>
                  synth.result = Ok(Get(node[2], "example"))
            /\ (Has(node, "$ref") /\ ~target.raised
                  /\ Has(target.value, "example")) =>
                  synth.result = Ok(Get(target.value[2], "example"))

\* a node with an example next to type, properties, enum, default and
\* examples has been synthesized, and one with an example next to a $ref
C11_Witness ==
    /\ synth.phase = "done"
    /\ Has(synth.schema, "example")
    /\ \/ /\ Keys(synth.schema[2]) =
               {"type", "properties", "enum", "default", "examples", "example"}
          /\ synth.result = Ok(int(<<"7">>))
       \/ /\ Has(synth.schema, "$ref")
          /\ synth.result = Ok(str(<<"y">>))

\* the node without the fields the rules before the type dispatch read
Unannotated(schema) ==
    dict(Without(Without(Without(schema[2], "examples"), "default"), "enum"))

\* C12: for a schema node without an example field the rules apply in this
\* order, first match wins: an examples mapping gives the result from its
\* first entry in declaration order (the value of the entry when the entry is
\* a mapping with a value, the entry itself when it is a string); else
\* default is returned verbatim; else the first element of a non-empty enum;
\* the type decides only when none of these applies.
C12_FirstEntryThenDefaultThenEnum ==
    (synth.phase = "done" /\ ~Has(synth.schema, "$ref")
        /\ ~Has(synth.schema, "example")) =>
        LET schema == synth.schema
            examples == Get(schema[2], "examples")
            first == examples[2][1][2]
            enum == Get(schema[2], "enum")
        IN  IF Has(schema, "examples") /\ examples[1] = "dict"
                 /\ examples[2] # <<>> /\ ReturnsFrom(first)
            THEN synth.result = Ok(IF first[1] = "dict"
                                   THEN Get(first[2], "value") ELSE first)
            ELSE IF Has(schema, "default")
            THEN synth.result = Ok(Get(schema[2], "default"))
            ELSE IF Has(schema, "enum") /\ enum[1] = "list" /\ enum[2] # <<>>
            THEN synth.result = Ok(enum[2][1])
            ELSE synth.result =
                     generate_example_from_schema(synth.spec,
                                                  Unannotated(schema), 1)

\* the object schema with the properties a (integer) and b (string)
ObjectAB ==
    dict(<< <<"type", str(<<"object">>)>>,
            <<"properties", dict(<< <<"a", TypeNode("integer")>>,
                                    <<"b", TypeNode("string")>> >>)>> >>)

C14_RequiredParamsAppended ==
    synth.phase = "done" =>
        LET target == _resolve_ref(synth.spec, Get(synth.schema[2], "$ref")[2])
            example == synth.result.value
        IN  (/\ Has(synth.schema, "$ref")
             /\ ~target.raised
             /\ Has(target.value, "type")
             /\ Get(target.value[2], "type") = str(<<"object">>)
             /\ ~synth.result.raised
             /\ example[1] = "dict"
             /\ Len(example[2]) > 1
             /\ \A k \in 1..Len(example[2]) : example[2][k][2][1] # "list") =>
                /\ Has(example, "__required_params__")
                /\ Get(example[2], "__required_params__")[1] = "list"

----------------------------------------------------------------------------
(* Properties of request preparation *)

\* the dispatch of caller c has prepared its request parts
Prepared(c) == \E n \in 1..Len(d[c].trail) : d[c].trail[n] = "auth"

\* the location the operation declares for a key, "query" for a key it does
\* not declare
DeclaredLocation(tool_name, pname) ==
    IF pname \in DOMAIN registry[tool_name].param_locations
    THEN registry[tool_name].param_locations[pname] ELSE "query"

\* pair is an entry of the ordered dict part
Holds(part, pair) == \E n \in 1..Len(part) : part[n] = pair

\* C21: a dispatch partitions the arguments by the location each key is
\* declared with: a key declared path, query or header is in that partition,
\* a key without declared location is in query, and no partition holds
\* anything else; the outbound body is the mapping of the keys declared body
\* when the arguments have no body key, and exactly the value of the body key
\* when they have one.
C21_PartitionByDeclaredLocation ==
    \A c \in callers : Prepared(c) =>
        LET f == d[c]
            declared(n) == DeclaredLocation(f.tool_name, f.arguments[n][1])
            inBody(pair) == DeclaredLocation(f.tool_name, pair[1]) = "body"
        IN  /\ \A n \in 1..Len(f.arguments) :
                  /\ Holds(f.path_params, f.arguments[n]) <=> declared(n) = "path"
                  /\ Holds(f.query_params, f.arguments[n]) <=> declared(n) = "query"
                  /\ Holds(f.headers, f.arguments[n]) <=> declared(n) = "header"
            /\ Len(f.path_params) + Len(f.query_params) + Len(f.headers)
                  <= Len(f.arguments)
            /\ IF body \in Keys(f.arguments)
               THEN f.req_body = Get(f.arguments, body)
               ELSE f.req_body = Dict(SelectSeq(f.arguments, inBody))

\* a dispatch with an undeclared key next to path and query keys has been
\* prepared, and one whose body key replaced a key declared in the body
C21_Witness ==
    \E c \in callers :
        /\ Prepared(c)
        /\ \/ /\ d[c].path_params # <<>>
              /\ Len(d[c].query_params) = 2
              /\ Holds(d[c].query_params, <<k_n, Str(<<"v">>)>>)
           \/ /\ \E n \in 1..Len(d[c].arguments) :
                    /\ d[c].arguments[n][1] # body
                    /\ DeclaredLocation(d[c].tool_name, d[c].arguments[n][1]) = "body"
              /\ body \in Keys(d[c].arguments)

\* the template with every placeholder {name} that has a supplied path
\* argument replaced by the string form of that argument, in one pass from
\* left to right; the text put in is not read again
RECURSIVE ExpandTemplate(_, _)
ExpandTemplate(template, path_params) ==
    IF template = <<>> THEN <<>>
    ELSE IF Head(template) = "{" /\ \E n \in 2..Len(template) : template[n] = "}"
    THEN LET close == CHOOSE n \in 2..Len(template) :
                          /\ template[n] = "}"
                          /\ \A m \in 2..(n - 1) : template[m] # "}"
             name == SubSeq(template, 2, close - 1)
         IN  IF name \in Keys(path_params)
             THEN StrOf(Get(path_params, name))
                      \o ExpandTemplate(SubSeq(template, close + 1, Len(template)),
                                        path_params)
             ELSE <<"{">> \o ExpandTemplate(Tail(template), path_params)
    ELSE <<Head(template)>> \o ExpandTemplate(Tail(template), path_params)

\* C22: the request URL is the base address (without a trailing slash)
\* followed by the path template in which every {name} placeholder with a
\* supplied path argument name is replaced by the string form of that
\* argument's own value and every other placeholder is left as literal
\* text; no error is raised for an unresolved placeholder, and the text put
\* in for one placeholder is not altered by the substitution of another.
C22_UrlFromTemplate ==
    \A c \in callers :
        (Prepared(c) /\ d[c].request # NoRequest) =>
            d[c].request.url =
                RStrip(tool_base_urls[d[c].tool_name], "/")
                    \o ExpandTemplate(registry[d[c].tool_name].path,
                                      d[c].path_params)

\* the header the transport sends under the name Content-Type: requests
\* merges the headers into a case-insensitive dict in insertion order, and
\* create_headers inserts the key "Content-Type" after the caller's headers
\* (tool_caller.py:373), so that key wins over one spelled in lower case
TransportContentType(headers) ==
    IF ContentType \in DOMAIN headers THEN headers[ContentType]
    ELSE IF ct_lower \in DOMAIN headers THEN headers[ct_lower]
    ELSE NoneV

\* the action's media type is multipart/form-data
IsMultipart(tool_name) ==
    MediaLower(registry[tool_name].conten_media_type) = MULTIPART

\* the body is a mapping with an attachment
HasAttachment(req_body) ==
    /\ req_body.t = "dict"
    /\ attachment \in Keys(req_body.v)
    /\ IsTruthy(Get(req_body.v, attachment))

C24_MultipartWithAttachment ==
    \A c \in callers :
        (/\ d[c].phase = "Sending"
         /\ IsMultipart(d[c].tool_name)
         /\ HasAttachment(d[c].req_body)) =>
            LET listed == Get(d[c].req_body.v, attachment)
                paths == IF listed.t = "list" THEN listed.v ELSE <<listed>>
                data == d[c].request.data
            IN  /\ Len(d[c].request.files) = Len(paths)
                /\ \A n \in 1..Len(paths) :
                      d[c].request.files[n].filename = basename(paths[n].v)
                /\ data.t = "dict" => attachment \notin Keys(data.v)
                /\ Len(d[c].req_body.v) = 1 <=> data = NoneV
                /\ data.t = "dict" =>
                      Keys(data.v) = Keys(d[c].req_body.v) \ {attachment}
                /\ TransportContentType(d[c].request.headers) = NoneV

\* the dispatch of caller c failed while its auth header was resolved
AuthFailed(c) ==
    /\ Prepared(c)
    /\ d[c].outcome.kind = "raise"
    /\ d[c].outcome.message = "auth header"

\* C25: a dispatch of an action whose auth_type is Basic or Bearer attaches
\* the corresponding Authorization header (unless the credentials are
\* missing or the caller supplied an Authorization header of its own); a
\* dispatch of an action with any other auth_type, an absent one included,
\* fails with the unsupported-auth-type error, after the required arguments
\* were validated and before any attachment is opened or any request sent.
C25_AuthHeaderOrUnsupported ==
    \A c \in callers : Prepared(c) =>
        LET f == d[c]
            meta == registry[f.tool_name]
            keyed == get_openapi_authentication(meta.service_name)
        IN  IF meta.auth_type \in {"Basic", "Bearer"}
            THEN \/ AuthFailed(c) /\ f.outcome.error = "RuntimeError"
                 \/ /\ ~AuthFailed(c)
                    /\ Authorization \in DOMAIN f.request.headers
                    /\ Authorization \notin Keys(f.headers) =>
                          f.request.headers[Authorization].v[1] =
                              (IF meta.auth_type = "Basic" THEN "Basic "
                               ELSE "Bearer ")
            ELSE /\ AuthFailed(c)
                 /\ f.outcome.error = "ValueError"
                 /\ f.trail = <<"lookup", "required", "auth">>
                 /\ f.files = <<>>
                 /\ f.sent = <<>>

\* argument n of the dispatch of caller c is part of the outbound body: it
\* is the body key, or it is declared in the body and no body key replaced
\* what the partitioning had collected
InOutboundBody(c, n) ==
    LET pname == d[c].arguments[n][1]
    IN  IF body \in Keys(d[c].arguments) THEN pname = body
        ELSE DeclaredLocation(d[c].tool_name, pname) = "body"

\* the number of request parts that hold argument n
PartsHolding(c, n) ==
    (IF Holds(d[c].path_params, d[c].arguments[n]) THEN 1 ELSE 0)
        + (IF Holds(d[c].query_params, d[c].arguments[n]) THEN 1 ELSE 0)
        + (IF Holds(d[c].headers, d[c].arguments[n]) THEN 1 ELSE 0)
        + (IF InOutboundBody(c, n) THEN 1 ELSE 0)

\* C28: in every dispatch that reaches request preparation each supplied
\* argument is in exactly one of the four request parts (path, query,
\* headers, body): none is dropped and none is in two parts.
C28_EachArgumentInOnePart ==
    \A c \in callers : Prepared(c) =>
        \A n \in 1..Len(d[c].arguments) : PartsHolding(c, n) = 1

\* C29: whenever a dispatch reaches Sending with a non-empty outbound body,
\* the request handed to the transport carries that body, as JSON, as form
\* fields or as multipart fields, whatever request media type the action
\* declares.
C29_BodyIsSent ==
    \A c \in callers :
        (d[c].phase = "Sending" /\ IsTruthy(d[c].req_body)) =>
            \/ d[c].request.json = d[c].req_body
            \/ d[c].request.data = d[c].req_body
            \/ d[c].request.files # <<>>

----------------------------------------------------------------------------
(* Properties of the constructed registry and of the builder *)

\* C27: after construction from any binding list the four registry maps
\* have the same key set, every registered name has a non-empty base
\* address, and for every registered name the required list of the metadata
\* equals the required list of the descriptor's input schema.
C27_RegistryMapsAgree ==
    /\ DOMAIN tools = DOMAIN registry
    /\ DOMAIN tools = DOMAIN tool_base_urls
    /\ DOMAIN tools = DOMAIN tool_specs
    /\ \A name \in DOMAIN tools :
          /\ tool_base_urls[name] # <<>>
          /\ registry[name].required = tools[name].inputSchema.required

\* a registry has been constructed from a list with a binding that has no
\* base address of its own, and holds a name with required arguments
C27_Witness ==
    /\ pc = "ready"
    /\ \E b \in 1..Len(openapi_specs) : openapi_specs[b].base_url = <<>>
    /\ \E name \in DOMAIN tools : registry[name].required # <<>>

\* the description of the body property of a descriptor, read in the
\* document the property refers to; empty for a descriptor without body
BodyDescriptionIn(h, tool) ==
    IF body \in DOMAIN tool.inputSchema.properties
    THEN LET at == tool.inputSchema.properties[body].at
         IN  h[at[1]][at[2]].requestBody.content[1].description
    ELSE <<>>

\* C30: building an action descriptor leaves the document unchanged, so
\* building is idempotent: building the same (path, method) twice from the
\* same document yields equal descriptors, with the same body description,
\* and the descriptor built first is not changed by the second build.
C30_BuildLeavesDocumentUnchanged ==
    \A ref \in DOMAIN heap : \A k \in 1..Len(heap[ref]) :
        LET operation == heap[ref][k]
            once == generate_tool_from_operation(heap, ref, operation.path,
                                                 operation.method, <<>>)
            twice == generate_tool_from_operation(once.heap, ref, operation.path,
                                                  operation.method, <<>>)
        IN  (~once.raised /\ ~twice.raised) =>
                /\ once.heap = heap
                /\ twice.tool = once.tool
                /\ BodyDescriptionIn(twice.heap, twice.tool)
                       = BodyDescriptionIn(once.heap, once.tool)
                /\ BodyDescriptionIn(twice.heap, once.tool)
                       = BodyDescriptionIn(once.heap, once.tool)

----------------------------------------------------------------------------
(* Properties of the synthesizer on schemas that refer to themselves *)

\* the declared type of a schema, None when it has none
TypeOf(schema) == IF Has(schema, "type") THEN Get(schema[2], "type") ELSE none

\* the pointers a schema names: its own $ref, else the pointers named in its
\* properties and in its items, whatever its type and annotations
RECURSIVE Named(_)
Named(node) ==
    IF node[1] # "dict" THEN {}
    ELSE IF Has(node, "$ref") THEN {Get(node[2], "$ref")[2]}
    ELSE (IF Has(node, "properties") /\ Get(node[2], "properties")[1] = "dict"
          THEN LET props == Get(node[2], "properties")[2]
               IN  UNION {Named(props[k][2]) : k \in 1..Len(props)}
          ELSE {})
         \cup (IF Has(node, "items") THEN Named(Get(node[2], "items")) ELSE {})

\* the pointers the synthesizer resolves below a schema: the $ref of a node
\* it is called on, nothing below a schema with an example, examples entry,
\* default or enum, the properties of an object and the items of an array
\* only; is_target holds for a schema that a pointer was resolved to, whose
\* own $ref is not looked at again
RECURSIVE Followed(_, _)
Followed(node, is_target) ==
    IF node[1] # "dict" THEN {}
    ELSE IF ~is_target /\ Has(node, "$ref") THEN {Get(node[2], "$ref")[2]}
    ELSE IF Annotated(node).found THEN {}
    ELSE IF TypeOf(node) = str(<<"object">>)
    THEN IF Has(node, "properties") /\ Get(node[2], "properties")[1] = "dict"
         THEN LET props == Get(node[2], "properties")[2]
              IN  UNION {Followed(props[k][2], FALSE) : k \in 1..Len(props)}
         ELSE {}
    ELSE IF TypeOf(node) = str(<<"array">>)
    THEN IF Has(node, "items") THEN Followed(Get(node[2], "items"), FALSE)
         ELSE {}
    ELSE {}

\* a schema the synthesizer visits below the node, without resolving a
\* pointer, is not a mapping
RECURSIVE Malformed(_, _)
Malformed(node, is_target) ==
    IF node[1] # "dict" THEN TRUE
    ELSE IF ~is_target /\ Has(node, "$ref") THEN FALSE
    ELSE IF Annotated(node).found THEN FALSE
    ELSE IF TypeOf(node) = str(<<"object">>)
    THEN IF Has(node, "properties")
         THEN LET props == Get(node[2], "properties")
              IN  \/ props[1] # "dict"
                  \/ \E k \in 1..Len(props[2]) : Malformed(props[2][k][2], FALSE)
         ELSE FALSE
    ELSE IF TypeOf(node) = str(<<"array">>)
    THEN IF Has(node, "items") THEN Malformed(Get(node[2], "items"), FALSE)
         ELSE FALSE
    ELSE FALSE

\* the pointers one step after p in the reference graph: all that the schema
\* at p names, or those the synthesizer follows when live
Successors(p, live) ==
    LET target == _resolve_ref(SchemaDoc, p)
    IN  IF target.raised THEN {}
        ELSE IF live THEN Followed(target.value, TRUE)
        ELSE Named(target.value)

\* the pointers reached from those of S in any number of steps
RECURSIVE Reachable(_, _)
Reachable(S, live) ==
    LET T == S \cup UNION {Successors(p, live) : p \in S}
    IN  IF T = S THEN S ELSE Reachable(T, live)

\* the schema reaches a schema that reaches itself
ReachesItself(node, live) ==
    \E p \in Reachable(IF live THEN Followed(node, FALSE) ELSE Named(node), live) :
        p \in Reachable(Successors(p, live), live)

\* a pointer the synthesizer follows from the node does not resolve, or a
\* schema it visits is not a mapping
Faulty(node) ==
    \/ Malformed(node, FALSE)
    \/ \E p \in Reachable(Followed(node, FALSE), TRUE) :
           LET target == _resolve_ref(SchemaDoc, p)
           IN  target.raised \/ Malformed(target.value, TRUE)

\* C26 as stated: on every schema that reaches itself through $ref pointers,
\* directly or through its properties or items, the recursion of the
\* synthesizer has no end, which the interpreter reports as RecursionError,
\* and on every schema whose reference graph is acyclic the synthesizer
\* returns a value.
C26_AsStated ==
    synth.phase = "done" =>
        IF ReachesItself(synth.schema, FALSE)
        THEN synth.result = Err("RecursionError")
        ELSE ~synth.result.raised

\* C26: the recursion of the synthesizer has no end, which the interpreter
\* reports as RecursionError, exactly on the schemas that reach themselves
\* through the pointers the synthesizer follows, unless a pointer that does
\* not resolve or a schema that is not a mapping is met first; a schema
\* that reaches itself only below an example, examples entry, default or
\* enum, or below properties or items that its type does not use, gets an
\* example; a schema that does not reach itself ends with a value when every
\* pointer followed resolves to a mapping, and with the error of the
\* resolver or a type error otherwise, never with RecursionError.
C26_UnboundedOnFollowedCycles ==
    synth.phase = "done" =>
        LET node == synth.schema
            r == synth.result
        IN  /\ r = Err("RecursionError") => ReachesItself(node, TRUE)
            /\ ReachesItself(node, TRUE) => r.raised
            /\ ReachesItself(node, TRUE) /\ ~Faulty(node)
                   => r = Err("RecursionError")
            /\ ~ReachesItself(node, TRUE) => (r.raised <=> Faulty(node))
            /\ ReachesItself(node, FALSE) /\ ~ReachesItself(node, TRUE)
                   /\ ~Faulty(node) => ~r.raised

\* the synthesizer was called on the pointer to the schema L that refers to
\* itself in its properties and ended with RecursionError
C26_Witness ==
    /\ synth.phase = "done"
    /\ synth.schema = dict(<< <<"$ref", str(<<"#", "/", "L">>)>> >>)
    /\ ReachesItself(synth.schema, TRUE)
    /\ synth.result = Err("RecursionError")

============================================================================
